---- MODULE Spec2Model ----
(***************************************************************************)
(* Model of the Open Match ticket path: the Redis state store              *)
(* (internal/statestore/redis.go) and the frontend service                 *)
(* (internal/app/frontend/frontend_service.go).                            *)
(*                                                                         *)
(* Every Redis command is one atomic step of the store.  A statestore      *)
(* method that issues several commands on several pooled connections is    *)
(* modelled as several steps, so that other callers interleave between     *)
(* them exactly where the code lets them.                                  *)
(***************************************************************************)
EXTENDS Integers, Sequences, FiniteSets, TLC

\* ------------------------------------------------------------- bounds
\* Number of ticket ids xid.New() hands out in one run.
MaxTickets == 2
\* Longest id list passed to AssignTickets.
MaxIds == 2
\* Number of AssignTickets calls started in one run.
MaxCalls == 3
\* Last instant of the clock (time.Now() in units of ignoreListTTL / 1).
MaxTime == 2
\* storage.ignoreListTTL, in clock ticks.
IgnoreListTTL == 1
\* redis.pool.maxActive: the connections redisPool hands out at a time.
MaxActive == 4
\* The most proposals of one window.
MaxProposals == 3
\* redis.expiration, in clock ticks.
Expiration == 2

\* ------------------------------------------------------------- values
IDs == 1..MaxTickets
\* An id no CreateTicket ever generated ("bogus" in the tests).
BogusID == MaxTickets + 1
AllIDs == IDs \cup {BogusID}
\* pb.Assignment values a caller passes; "nil" is the nil pointer.
Assignments == {"a1", "a2"}
AssignOrNil == Assignments \cup {"nil"}
\* The backend callers of AssignTickets.
Assigners == {"b1", "b2"}
\* pb.Struct values a client puts in Ticket.Properties.
Properties == {"p1", "p2"}
\* The number fields of those values: p1 is {skill: 1}, p2 is {skill: 3,
\* level: 2}; a ticket without properties has no field.
Fields(properties) ==
  IF properties = "p1" THEN [skill |-> 1]
  ELSE IF properties = "p2" THEN [skill |-> 3, level |-> 2]
  ELSE << >>
\* Largest bound of a filter.
MaxBound == 3
\* pb.Filter values: an attribute and a range, [1, 2] or [2, MaxBound].
Filters ==
  {[attribute |-> a, min |-> r[1], max |-> r[2]] :
     a \in {"skill", "level"}, r \in {<<1, 2>>, <<2, MaxBound>>}}
\* pb.Pool values: no filter, one, or two.
Pools == {P \in SUBSET Filters : Cardinality(P) <= 2}
\* The empty string: the id of a ticket that was given none.
NoID == 0
\* A pb.Ticket: id, properties, assignment and create_time; "nil" is the nil
\* pointer of a message field, "ts" a timestamp set by ptypes.TimestampNow.
Ticket(id, properties, assignment, create_time) ==
  [id |-> id, properties |-> properties, assignment |-> assignment,
   create_time |-> create_time]
\* The ticket a failed GetTicket returns (nil).
NoTicket == Ticket(BogusID, "nil", "nil", "nil")
\* proto.Marshal: the fields that are set, as (field, value) pairs in the
\* order of their field numbers; an empty string and a nil message are not
\* written.
Marshal(ticket) ==
  (IF ticket.id = NoID THEN << >> ELSE <<<<"id", ticket.id>>>>)
  \o (IF ticket.properties = "nil" THEN << >>
      ELSE <<<<"properties", ticket.properties>>>>)
  \o (IF ticket.assignment = "nil" THEN << >>
      ELSE <<<<"assignment", ticket.assignment>>>>)
  \o (IF ticket.create_time = "nil" THEN << >>
      ELSE <<<<"create_time", ticket.create_time>>>>)
\* The value of a field among marshalled pairs, or the field's zero value.
Field(value, name, zero) ==
  IF \E i \in 1..Len(value) : value[i][1] = name
  THEN value[CHOOSE i \in 1..Len(value) : value[i][1] = name][2]
  ELSE zero
\* proto.Unmarshal into an empty pb.Ticket.
Unmarshal(value) ==
  Ticket(Field(value, "id", NoID), Field(value, "properties", "nil"),
         Field(value, "assignment", "nil"), Field(value, "create_time", "nil"))
Range(s) == {s[i] : i \in 1..Len(s)}
Last(s) == s[Len(s)]
\* Id lists of length 0..MaxIds over a set of ids, in ascending order of id.
IdLists(S) ==
  {l \in UNION {[1..n -> S] : n \in 0..MaxIds} :
     \A i \in 1..Len(l), j \in 1..Len(l) : i < j => l[i] < l[j]}

\* The id lists a caller of GetTickets passes: any order, with repetitions.
IdSeqs(S) == UNION {[1..n -> S] : n \in 0..MaxIds}

VARIABLES
  \* ---- the Redis store
  tickets,              \* key -> marshalled ticket (DOMAIN = keys present)
  allTickets,           \* the set "allTickets": the index
  proposed_ticket_ids,  \* the sorted set: member -> score (the ignore list)
  now,                  \* time.Now()
  \* ---- frontend CreateTicket
  nextId,               \* the next id xid.New() returns
  returned,             \* ids CreateTicket has returned to a client
  fePc, feTicket, feResult,
  feReq,                \* the request of the last CreateTicket call
  feReqTicket,          \* the caller's request ticket after that call
  \* ---- frontend DeleteTicket and its lazy goroutine
  deleteOK,             \* ids for which DeleteTicket returned OK
  dCode, dDeindexCode,  \* last DeleteTicket: code returned, code of DeindexTicket
  lazy,                 \* id -> position of the goroutine started for id
  lazyFailed,           \* ids whose goroutine logged an error
  \* ---- backend AssignTickets / UpdateAssignments, one call per assigner
  calls, aPc, aIds, aAsg, aPos, aRead, aResult,
  aWritten,             \* ids the call has rewritten so far
  aTouched,             \* ids of the call another actor wrote or deleted
  \* ---- frontend WatchAssignments (one stream)
  wPc, wId, currAssignment, emitted, wResult,
  wReads,               \* assignments the polls read (changes only)
  wWrites,              \* the watched ticket's assignment at the start of
                        \* the watch, then every assignment written to it
  \* ---- GetIndexedIDSet (one call at a time)
  qPc, qIgnore, qResult, qCode,
  qTime,                \* curTime of the call in progress
  qDeletedAtStart,      \* deleteOK when the call started
  \* ---- what an observer of the store records
  qSeen,                \* ids that, at some instant of the GetIndexedIDSet
                        \* call, were indexed and not hidden by the ignore list
  qDirty,               \* the index or the ignore list was written during
                        \* the GetIndexedIDSet call
  sCall,                \* the last call a client made on the store directly
  sReply,               \* the tickets that call returned
  expired,              \* ids whose record Redis evicted (redis.expiration)
  poolActive,           \* connections of redisPool handed out and not closed
  reachable,            \* Redis answers
  hcPc,                 \* HealthCheck: "idle", "stats", "ping"
  hcResult,             \* the code the last HealthCheck returned
  hcIdle,               \* healthCheckPool holds an idle connection
  hcStarved,            \* redisPool was exhausted at every step of the call
  wCancelled,           \* the caller cancelled the context of the stream
  wTick,                \* the phase of the backoff timer of GetAssignments
  qtPc,                 \* QueryTickets: "idle", "call", "ids", "done"
  qtPool,               \* the filters of the pool it was called with
  qtTime,               \* the time its GetIndexedIDSet read
  qtResult,             \* the tickets of the pages it streamed
  qtCode,               \* the code it returned
  evCfg,                \* which evaluator port the configuration sets
  evCache,              \* the transport the cacher holds (0: none)
  evBuilt,              \* the number of transports built so far
  evCall,               \* the last evaluate call and what it returned
  plOp,                 \* caller -> the store operation it is in
  plAt,                 \* caller -> where it is with the connections of redisPool
  plLeft,               \* caller -> nested store operations it still has to make
  hMain,                \* httpEvaluatorClient.evaluate: where the call is
  hProd,                \* its writer goroutine
  hCons,                \* its reader goroutine
  hPipe,                \* the request pipe: "unread", "reading", "closed"
  hLeft,                \* proposals the writer has still to write
  hClosed,              \* the deferred close(sc) has run
  kExpire,              \* key -> the instant Redis evicts it (EXPIRE)
  kCreated              \* id -> the instant its ticket was created

storeVars == <<tickets, allTickets, proposed_ticket_ids, now>>
feVars == <<nextId, returned, fePc, feTicket, feResult, feReq, feReqTicket>>
delVars == <<deleteOK, dCode, dDeindexCode, lazy, lazyFailed>>
asgVars == <<calls, aPc, aIds, aAsg, aPos, aRead, aResult, aWritten, aTouched>>
watchVars == <<wPc, wId, currAssignment, emitted, wResult, wReads, wWrites>>
queryVars == <<qPc, qIgnore, qResult, qCode, qTime, qDeletedAtStart>>
hcVars == <<poolActive, reachable, hcPc, hcResult, hcIdle, hcStarved>>
\* The variables of the components that hold no ticket data.
wcVars == <<wCancelled, wTick>>
qtVars == <<qtPc, qtPool, qtTime, qtResult, qtCode>>
evVars == <<evCfg, evCache, evBuilt, evCall>>
plVars == <<plOp, plAt, plLeft>>
htVars == <<hMain, hProd, hCons, hPipe, hLeft, hClosed>>
exVars == <<kExpire, kCreated>>
compVars == <<hcVars, wcVars, qtVars, evVars, plVars, htVars, exVars>>
obsVars == <<qSeen, qDirty, sCall, sReply, expired, compVars>>
\* The variables of the store's data, of its callers and of their observers.
dataVars == <<storeVars, feVars, delVars, asgVars, watchVars, queryVars,
              qSeen, qDirty, sCall, sReply, expired>>
\* What a step of the health check, and a step of a stream with a context,
\* leave alone.
\* leave alone, a step of QueryTickets outside the store, and a step of the
\* evaluator client.
hcRest == <<dataVars, wcVars, qtVars, evVars, plVars, htVars, exVars>>
wcRest == <<qSeen, qDirty, sCall, sReply, expired, hcVars, qtVars, evVars, plVars,
            htVars, exVars>>
qtRest == <<qSeen, qDirty, sCall, sReply, expired, hcVars, wcVars, evVars, plVars,
            htVars, exVars>>
evRest == <<dataVars, hcVars, wcVars, qtVars, plVars, htVars, exVars>>
plRest == <<dataVars, wcVars, qtVars, evVars, htVars, exVars>>
htRest == <<dataVars, hcVars, wcVars, qtVars, evVars, plVars, exVars>>
exRest == <<qSeen, qDirty, sCall, sReply, hcVars, wcVars, qtVars, evVars, plVars,
            htVars>>
vars == <<storeVars, feVars, delVars, asgVars, watchVars, queryVars, obsVars>>

\* The concurrent callers of the store: as many as redisPool has connections.
Callers == 1..MaxActive

\* No evaluate call yet.
NoEvaluate == [transport |-> "none", inst |-> 0, cached |-> FALSE,
               proposals |-> << >>, frames |-> << >>, script |-> "none",
               producer |-> "none", code |-> "none", matches |-> << >>]

\* No call yet.
NoCall == [op |-> "none", ids |-> << >>, existed |-> FALSE, fault |-> "none",
           code |-> "none"]

\* Ids a client can name: those a CreateTicket returned, and a bogus one.
ClientIDs == returned \cup {BogusID}

\* ------------------------------------------------------- store faults
\* A command issued with Do: the pool may fail to hand out a connection,
\* or the command may fail on the wire.
DoFaults == {"none", "connect", "command"}
\* A command only buffered with Send: the buffered command reaches Redis
\* when the deferred handleConnectionClose flushes the connection; an error
\* of that flush is dropped ("flush").
SendFaults == {"none", "connect", "send", "flush"}

Init ==
  /\ tickets = << >>
  /\ allTickets = {}
  /\ proposed_ticket_ids = << >>
  /\ now = 0
  /\ nextId = 1
  /\ returned = {}
  /\ fePc = "idle"
  /\ feTicket = NoTicket
  /\ feResult = "none"
  /\ feReq = "none"
  /\ feReqTicket = NoTicket
  /\ deleteOK = {}
  /\ dCode = "none"
  /\ dDeindexCode = "none"
  /\ lazy = [i \in AllIDs |-> "none"]
  /\ lazyFailed = {}
  /\ calls = 0
  /\ aPc = [p \in Assigners |-> "idle"]
  /\ aIds = [p \in Assigners |-> << >>]
  /\ aAsg = [p \in Assigners |-> "nil"]
  /\ aPos = [p \in Assigners |-> 1]
  /\ aRead = [p \in Assigners |-> << >>]
  /\ aResult = [p \in Assigners |-> "none"]
  /\ aWritten = [p \in Assigners |-> {}]
  /\ aTouched = [p \in Assigners |-> {}]
  /\ wPc = "idle"
  /\ wId = BogusID
  /\ currAssignment = "nil"
  /\ emitted = << >>
  /\ wResult = "none"
  /\ wReads = << >>
  /\ wWrites = << >>
  /\ qPc = "idle"
  /\ qIgnore = {}
  /\ qResult = {}
  /\ qCode = "none"
  /\ qTime = 0
  /\ qDeletedAtStart = {}
  /\ qSeen = {}
  /\ qDirty = FALSE
  /\ sCall = NoCall
  /\ sReply = << >>
  /\ expired = {}
  /\ poolActive = 0
  /\ reachable = TRUE
  /\ hcPc = "idle"
  /\ hcResult = "none"
  /\ hcIdle = FALSE
  /\ hcStarved = FALSE
  /\ wCancelled = FALSE
  /\ wTick = FALSE
  /\ qtPc = "idle"
  /\ qtPool = {}
  /\ qtTime = 0
  /\ qtResult = {}
  /\ qtCode = "none"
  /\ evCfg = "neither"
  /\ evCache = 0
  /\ evBuilt = 0
  /\ evCall = NoEvaluate
  /\ plOp = [c \in Callers |-> "none"]
  /\ plAt = [c \in Callers |-> "idle"]
  /\ plLeft = [c \in Callers |-> 0]
  /\ hMain = "idle"
  /\ hProd = "none"
  /\ hCons = "none"
  /\ hPipe = "unread"
  /\ hLeft = 0
  /\ hClosed = FALSE
  /\ kExpire = << >>
  /\ kCreated = << >>

\* ------------------------------------------------------ the state store
Put(f, k, v) == [i \in DOMAIN f \cup {k} |-> IF i = k THEN v ELSE f[i]]
Drop(f, K) == [i \in DOMAIN f \ K |-> f[i]]

\* redisBackend.CreateTicket: MULTI, SET id value, EXEC on one connection
\* (redis.expiration is 0: no EXPIRE).  Overwrites the record under ticket.id.
rbCreateTicket(ticket, f) ==
  IF f = "connect" THEN [code |-> "Unavailable", tickets |-> tickets]
  ELSE IF f = "command" THEN [code |-> "Internal", tickets |-> tickets]
  ELSE [code |-> "OK", tickets |-> Put(tickets, ticket.id, Marshal(ticket))]

\* GetTicket without the checks for a nil reply: the missing record
\* unmarshals into an empty ticket.
rbGetTicket_nilAsEmpty(id, f) ==
  IF f = "connect" THEN [code |-> "Unavailable", ticket |-> NoTicket]
  ELSE IF f = "command" THEN [code |-> "Internal", ticket |-> NoTicket]
  ELSE IF id \notin DOMAIN tickets
       THEN [code |-> "OK", ticket |-> Unmarshal(<< >>)]
  ELSE [code |-> "OK", ticket |-> Unmarshal(tickets[id])]

\* redisBackend.GetTicket: GET id; a nil reply is NotFound.
rbGetTicket(id, f) ==
  IF f = "connect" THEN [code |-> "Unavailable", ticket |-> NoTicket]
  ELSE IF f = "command" THEN [code |-> "Internal", ticket |-> NoTicket]
  ELSE IF id \notin DOMAIN tickets THEN [code |-> "NotFound", ticket |-> NoTicket]
  ELSE [code |-> "OK", ticket |-> Unmarshal(tickets[id])]

\* DeleteTicket that reports a missing record.
rbDeleteTicket_notFound(id, f) ==
  IF f = "connect" THEN [code |-> "Unavailable", tickets |-> tickets]
  ELSE IF f = "command" THEN [code |-> "Internal", tickets |-> tickets]
  ELSE IF id \notin DOMAIN tickets THEN [code |-> "NotFound", tickets |-> tickets]
  ELSE [code |-> "OK", tickets |-> Drop(tickets, {id})]

\* GetTickets that answers a missing record with NotFound.
rbGetTickets_strict(ids, f) ==
  IF Len(ids) = 0 THEN [code |-> "OK", tickets |-> << >>]
  ELSE IF f = "connect" THEN [code |-> "Unavailable", tickets |-> << >>]
  ELSE IF f = "command" THEN [code |-> "Internal", tickets |-> << >>]
  ELSE IF \E k \in 1..Len(ids) : ids[k] \notin DOMAIN tickets
       THEN [code |-> "NotFound", tickets |-> << >>]
  ELSE [code |-> "OK", tickets |-> [k \in 1..Len(ids) |-> Unmarshal(tickets[ids[k]])]]

\* redisBackend.GetTickets: nothing to do for no id; else MGET of the ids,
\* and the replies that are not nil, unmarshalled, in the order of the ids.
rbGetTickets(ids, f) ==
  IF Len(ids) = 0 THEN [code |-> "OK", tickets |-> << >>]
  ELSE IF f = "connect" THEN [code |-> "Unavailable", tickets |-> << >>]
  ELSE IF f = "command" THEN [code |-> "Internal", tickets |-> << >>]
  ELSE LET found == SelectSeq(ids, LAMBDA id : id \in DOMAIN tickets)
       IN [code |-> "OK",
           tickets |-> [k \in 1..Len(found) |-> Unmarshal(tickets[found[k]])]]

\* redisBackend.DeleteTicket: DEL id.
rbDeleteTicket(id, f) ==
  IF f = "connect" THEN [code |-> "Unavailable", tickets |-> tickets]
  ELSE IF f = "command" THEN [code |-> "Internal", tickets |-> tickets]
  ELSE [code |-> "OK", tickets |-> Drop(tickets, {id})]

\* redisBackend.IndexTicket: Send("SADD", allTickets, id), return nil.  The
\* command is only buffered; the deferred close flushes it and drops the
\* outcome of the flush.
rbIndexTicket(ticket, f) ==
  IF f = "connect" THEN [code |-> "Unavailable", allTickets |-> allTickets]
  ELSE IF f = "send" THEN [code |-> "Internal", allTickets |-> allTickets]
  ELSE IF f = "flush" THEN [code |-> "OK", allTickets |-> allTickets]
  ELSE [code |-> "OK", allTickets |-> allTickets \cup {ticket.id}]

\* DeindexTicket that reports an id that is not a member of the index.
rbDeindexTicket_strict(id, f) ==
  IF f = "connect" THEN [code |-> "Unavailable", allTickets |-> allTickets]
  ELSE IF f = "send" THEN [code |-> "Internal", allTickets |-> allTickets]
  ELSE IF f = "flush" THEN [code |-> "OK", allTickets |-> allTickets]
  ELSE IF id \notin allTickets THEN [code |-> "NotFound", allTickets |-> allTickets]
  ELSE [code |-> "OK", allTickets |-> allTickets \ {id}]

\* redisBackend.DeindexTicket: Send("SREM", allTickets, id), return nil.
rbDeindexTicket(id, f) ==
  IF f = "connect" THEN [code |-> "Unavailable", allTickets |-> allTickets]
  ELSE IF f = "send" THEN [code |-> "Internal", allTickets |-> allTickets]
  ELSE IF f = "flush" THEN [code |-> "OK", allTickets |-> allTickets]
  ELSE [code |-> "OK", allTickets |-> allTickets \ {id}]

\* AddTicketsToIgnoreList as a reader finds it between two ZADDs sent outside
\* a transaction: the first id is on the list, the others are not yet.
rbAddTicketsToIgnoreList_partial(ids, f) ==
  IF f = "connect" THEN [code |-> "Unavailable", list |-> proposed_ticket_ids]
  ELSE IF f = "command" THEN [code |-> "Internal", list |-> proposed_ticket_ids]
  ELSE [code |-> "OK",
        list |-> [i \in DOMAIN proposed_ticket_ids \cup {ids[1]} |->
                    IF i = ids[1] THEN now ELSE proposed_ticket_ids[i]]]

\* redisBackend.AddTicketsToIgnoreList: MULTI, ZADD score=now for every id,
\* EXEC, all on one connection.
rbAddTicketsToIgnoreList(ids, f) ==
  IF f = "connect" THEN [code |-> "Unavailable", list |-> proposed_ticket_ids]
  ELSE IF f = "command" THEN [code |-> "Internal", list |-> proposed_ticket_ids]
  ELSE [code |-> "OK",
        list |-> [i \in DOMAIN proposed_ticket_ids \cup Range(ids) |->
                    IF i \in Range(ids) THEN now ELSE proposed_ticket_ids[i]]]

\* redisBackend.DeleteTicketsFromIgnoreList: MULTI, ZREM for every id, EXEC.
rbDeleteTicketsFromIgnoreList(ids, f) ==
  IF Len(ids) = 0 THEN [code |-> "OK", list |-> proposed_ticket_ids]
  ELSE IF f = "connect" THEN [code |-> "Unavailable", list |-> proposed_ticket_ids]
  ELSE IF f = "command" THEN [code |-> "Internal", list |-> proposed_ticket_ids]
  ELSE [code |-> "OK", list |-> Drop(proposed_ticket_ids, Range(ids))]

\* ZRANGEBYSCORE from -inf: every id put on the list up to curTime.
IdsInIgnoreLists_noTTL(curTime) ==
  {i \in DOMAIN proposed_ticket_ids : proposed_ticket_ids[i] <= curTime}

\* The ids ZRANGEBYSCORE proposed_ticket_ids (curTime - ttl) curTime returns.
IdsInIgnoreLists(curTime) ==
  {i \in DOMAIN proposed_ticket_ids :
     /\ curTime - IgnoreListTTL <= proposed_ticket_ids[i]
     /\ proposed_ticket_ids[i] <= curTime}

\* Another actor wrote or deleted the record of id: every open call of an
\* assigner other than p that names id records it.
Touch(id, p) ==
  [q \in Assigners |->
     IF q # p /\ aPc[q] \notin {"idle"} /\ id \in Range(aIds[q])
     THEN aTouched[q] \cup {id} ELSE aTouched[q]]

\* time.Now() advances.
Tick ==
  /\ now < MaxTime
  /\ now' = now + 1
  /\ UNCHANGED <<tickets, allTickets, proposed_ticket_ids>>
  /\ UNCHANGED <<feVars, delVars, asgVars, watchVars, queryVars>>

\* AddTicketsToIgnoreList that also takes the ids out of the index.
AddTicketsToIgnoreList_deindex(ids, f) ==
  /\ Len(ids) > 0
  /\ proposed_ticket_ids' = rbAddTicketsToIgnoreList(ids, f).list
  /\ allTickets' = allTickets \ Range(ids)
  /\ UNCHANGED <<tickets, now>>
  /\ UNCHANGED <<feVars, delVars, asgVars, watchVars, queryVars>>

\* The synchronizer puts the tickets of proposals on the ignore list.
AddTicketsToIgnoreList(ids, f) ==
  /\ Len(ids) > 0
  /\ proposed_ticket_ids' = rbAddTicketsToIgnoreList(ids, f).list
  /\ UNCHANGED <<tickets, allTickets, now>>
  /\ UNCHANGED <<feVars, delVars, asgVars, watchVars, queryVars>>

\* ------------------------------------------------ frontend CreateTicket
\* The CreateTicketRequests a client sends: a ticket with properties, the
\* same with an id of the client's, none, one with an assignment, one with
\* a create time.
Requests == {"ok", "withId", "noTicket", "withAssignment", "withCreateTime"}

\* req.Ticket, and whether it is set.
CreateTicketRequest(req) ==
  [hasTicket |-> req # "noTicket",
   ticket |-> Ticket(IF req = "withId" THEN BogusID ELSE NoID,
                     IF req = "noTicket" THEN "nil"
                     ELSE IF req = "withId" THEN "p2" ELSE "p1",
                     IF req = "withAssignment" THEN "a1" ELSE "nil",
                     IF req = "withCreateTime" THEN "ts" ELSE "nil")]

\* The validation without the check of the assignment.
ValidateCreate_noAssignmentCheck(req) ==
  LET r == CreateTicketRequest(req)
  IN IF ~r.hasTicket THEN "InvalidArgument"
     ELSE IF r.ticket.create_time # "nil" THEN "InvalidArgument"
     ELSE "OK"

\* frontendService.CreateTicket: input validation.
ValidateCreate(req) ==
  LET r == CreateTicketRequest(req)
  IN IF ~r.hasTicket THEN "InvalidArgument"
     ELSE IF r.ticket.assignment # "nil" THEN "InvalidArgument"
     ELSE IF r.ticket.create_time # "nil" THEN "InvalidArgument"
     ELSE "OK"

\* doCreateTicket without proto.Clone: the id and the create time are set
\* on the caller's ticket.
NewTicket_noClone(reqTicket, id) ==
  LET t == [reqTicket EXCEPT !.id = id, !.create_time = "ts"]
  IN [ticket |-> t, reqTicket |-> t]

\* doCreateTicket before the store is called: a clone of req.Ticket gets the
\* generated id and the create time; the caller's ticket is left as it is.
NewTicket(reqTicket, id) ==
  [ticket |-> [reqTicket EXCEPT !.id = id, !.create_time = "ts"],
   reqTicket |-> reqTicket]

\* frontendService.CreateTicket up to and including store.CreateTicket.
CreateTicket(req, f) ==
  /\ fePc = "idle"
  /\ feReq' = req
  /\ IF ValidateCreate(req) # "OK"
     THEN /\ feResult' = "InvalidArgument"
          /\ feReqTicket' = CreateTicketRequest(req).ticket
          /\ UNCHANGED <<tickets, nextId, fePc, feTicket>>
     ELSE /\ nextId <= MaxTickets
          /\ LET n == NewTicket(CreateTicketRequest(req).ticket, nextId)
                 r == rbCreateTicket(n.ticket, f)
             IN /\ nextId' = nextId + 1
                /\ tickets' = r.tickets
                /\ feReqTicket' = n.reqTicket
                /\ IF r.code = "OK"
                   THEN /\ fePc' = "index"
                        /\ feTicket' = n.ticket
                        /\ feResult' = "none"
                   ELSE /\ feResult' = r.code
                        /\ UNCHANGED <<fePc, feTicket>>
  /\ UNCHANGED <<allTickets, proposed_ticket_ids, now, returned>>
  /\ UNCHANGED <<delVars, asgVars, watchVars, queryVars>>

\* doCreateTicket from store.IndexTicket to the return.
CreateTicketIndex(f) ==
  /\ fePc = "index"
  /\ LET r == rbIndexTicket(feTicket, f)
     IN /\ allTickets' = r.allTickets
        /\ feResult' = r.code
        /\ returned' = IF r.code = "OK" THEN returned \cup {feTicket.id} ELSE returned
  /\ fePc' = "idle"
  /\ UNCHANGED <<tickets, proposed_ticket_ids, now, nextId, feTicket, feReq, feReqTicket>>
  /\ UNCHANGED <<delVars, asgVars, watchVars, queryVars>>

\* ------------------------------------------------ frontend DeleteTicket
\* doDeleteTicket with the deindex error only logged: the goroutine starts
\* and nil is returned whatever DeindexTicket returned.
doDeleteTicket_swallow(id, f) ==
  LET r == rbDeindexTicket(id, f)
  IN [deindex |-> r.code, code |-> "OK", allTickets |-> r.allTickets,
      spawn |-> TRUE]

\* doDeleteTicket: store.DeindexTicket, then start the lazy goroutine and
\* return nil; a deindex error is returned and no goroutine starts.
doDeleteTicket(id, f) ==
  LET r == rbDeindexTicket(id, f)
  IN [deindex |-> r.code, code |-> r.code, allTickets |-> r.allTickets,
      spawn |-> (r.code = "OK")]

\* frontendService.DeleteTicket.
DeleteTicket(id, f) ==
  /\ lazy[id] = "none"
  /\ LET d == doDeleteTicket(id, f)
     IN /\ allTickets' = d.allTickets
        /\ dDeindexCode' = d.deindex
        /\ dCode' = d.code
        /\ deleteOK' = IF d.code = "OK" THEN deleteOK \cup {id} ELSE deleteOK
        /\ lazy' = IF d.spawn THEN [lazy EXCEPT ![id] = "delete"] ELSE lazy
  /\ UNCHANGED <<tickets, proposed_ticket_ids, now, lazyFailed>>
  /\ UNCHANGED <<feVars, asgVars, watchVars, queryVars>>

\* The goroutine: store.DeleteTicket(id); an error is logged.
LazyDelete(id, f) ==
  /\ lazy[id] = "delete"
  /\ LET r == rbDeleteTicket(id, f)
     IN /\ tickets' = r.tickets
        /\ lazyFailed' = IF r.code = "OK" THEN lazyFailed ELSE lazyFailed \cup {id}
        /\ aTouched' = IF r.code = "OK" THEN Touch(id, "lazy") ELSE aTouched
  /\ lazy' = [lazy EXCEPT ![id] = "ignore"]
  /\ UNCHANGED <<allTickets, proposed_ticket_ids, now, deleteOK, dCode, dDeindexCode>>
  /\ UNCHANGED <<calls, aPc, aIds, aAsg, aPos, aRead, aResult, aWritten>>
  /\ UNCHANGED <<feVars, watchVars, queryVars>>

\* The goroutine: store.DeleteTicketsFromIgnoreList([id]); an error is logged.
LazyIgnore(id, f) ==
  /\ lazy[id] = "ignore"
  /\ LET r == rbDeleteTicketsFromIgnoreList(<<id>>, f)
     IN /\ proposed_ticket_ids' = r.list
        /\ lazyFailed' = IF r.code = "OK" THEN lazyFailed ELSE lazyFailed \cup {id}
  /\ lazy' = [lazy EXCEPT ![id] = "none"]
  /\ UNCHANGED <<tickets, allTickets, now, deleteOK, dCode, dDeindexCode>>
  /\ UNCHANGED <<feVars, asgVars, watchVars, queryVars>>

\* ------------------------------------- backend AssignTickets / UpdateAssignments
\* Backend AssignTickets: an empty id list is rejected before the store is
\* called.
AssignTicketsValidate(ids) ==
  IF Len(ids) = 0 THEN "InvalidArgument" ELSE "OK"

\* UpdateAssignments without the nil check.
UpdateAssignmentsEnter_noNilCheck(a, f) ==
  IF f = "connect" THEN "Unavailable"
  ELSE IF f = "command" THEN "Unknown"
  ELSE "OK"

\* redisBackend.UpdateAssignments up to the first loop: the nil check, the
\* connection and Send("MULTI") on it.
UpdateAssignmentsEnter(a, f) ==
  IF a = "nil" THEN "InvalidArgument"
  ELSE IF f = "connect" THEN "Unavailable"
  ELSE IF f = "command" THEN "Unknown"
  ELSE "OK"

\* The write loop without "ticket.Assignment = assignmentCopy".
WithAssignment_keep(ticket, a) == ticket

\* proto.Clone(assignment), stored in ticket.Assignment.
WithAssignment(ticket, a) == [ticket EXCEPT !.assignment = a]

\* The range loops of UpdateAssignments end after the last element.
LastOf(p) == aPos[p] = Len(aIds[p])

\* The return that drops the error.
Return_nil(p, code) ==
  /\ aPc' = [aPc EXCEPT ![p] = "idle"]
  /\ aResult' = [aResult EXCEPT ![p] = "OK"]
  /\ aIds' = [aIds EXCEPT ![p] = << >>]
  /\ aAsg' = [aAsg EXCEPT ![p] = "nil"]
  /\ aPos' = [aPos EXCEPT ![p] = 1]
  /\ aRead' = [aRead EXCEPT ![p] = << >>]
  /\ aWritten' = [aWritten EXCEPT ![p] = {}]

\* The call returns: its locals are gone, the caller holds the code.
Return(p, code) ==
  /\ aPc' = [aPc EXCEPT ![p] = "idle"]
  /\ aResult' = [aResult EXCEPT ![p] = code]
  /\ aIds' = [aIds EXCEPT ![p] = << >>]
  /\ aAsg' = [aAsg EXCEPT ![p] = "nil"]
  /\ aPos' = [aPos EXCEPT ![p] = 1]
  /\ aRead' = [aRead EXCEPT ![p] = << >>]
  /\ aWritten' = [aWritten EXCEPT ![p] = {}]

\* A backend calls AssignTickets(ids, a).
AssignTickets(p, ids, a) ==
  /\ aPc[p] = "idle"
  /\ aPc' = [aPc EXCEPT ![p] = "enter"]
  /\ aIds' = [aIds EXCEPT ![p] = ids]
  /\ aAsg' = [aAsg EXCEPT ![p] = a]
  /\ aResult' = [aResult EXCEPT ![p] = "none"]
  /\ UNCHANGED <<aPos, aRead, aWritten, aTouched>>
  /\ UNCHANGED <<storeVars, feVars, delVars, watchVars, queryVars>>

\* The checks made before the first loop of UpdateAssignments.
UpdateAssignmentsBegin(p, f) ==
  /\ aPc[p] = "enter"
  /\ LET code == IF AssignTicketsValidate(aIds[p]) # "OK"
                 THEN AssignTicketsValidate(aIds[p])
                 ELSE UpdateAssignmentsEnter(aAsg[p], f)
     IN IF code = "OK"
        THEN /\ aPc' = [aPc EXCEPT ![p] = "check"]
             /\ UNCHANGED <<aIds, aAsg, aPos, aRead, aResult, aWritten, aTouched>>
        ELSE /\ Return(p, code)
             /\ aTouched' = [aTouched EXCEPT ![p] = {}]
  /\ UNCHANGED <<calls, storeVars, feVars, delVars, watchVars, queryVars>>

\* One iteration of the sanity-check loop: ctx.Done, else rb.GetTicket(id) on
\* a connection of its own; any error ends the call before a write.
UpdateAssignmentsCheck(p, f, cancel) ==
  /\ aPc[p] = "check"
  /\ LET id == aIds[p][aPos[p]]
         r == rbGetTicket(id, f)
     IN IF cancel \/ r.code # "OK"
        THEN /\ Return(p, IF cancel THEN "Canceled" ELSE r.code)
             /\ aTouched' = [aTouched EXCEPT ![p] = {}]
        ELSE /\ aRead' = [aRead EXCEPT ![p] = Append(@, r.ticket)]
             /\ aPc' = [aPc EXCEPT ![p] = IF LastOf(p) THEN "write" ELSE "check"]
             /\ aPos' = [aPos EXCEPT ![p] = IF LastOf(p) THEN 1 ELSE @ + 1]
             /\ UNCHANGED <<aIds, aAsg, aResult, aWritten, aTouched>>
  /\ UNCHANGED <<calls, storeVars, feVars, delVars, watchVars, queryVars>>

\* One iteration of the write loop: ctx.Done, else the ticket read by the
\* sanity check gets a clone of the assignment and is written back with
\* rb.CreateTicket on a connection of its own.
UpdateAssignmentsWrite(p, f, cancel) ==
  /\ aPc[p] = "write"
  /\ LET ticket == WithAssignment(aRead[p][aPos[p]], aAsg[p])
         r == rbCreateTicket(ticket, f)
     IN IF cancel \/ r.code # "OK"
        THEN /\ Return(p, IF cancel THEN "Canceled" ELSE r.code)
             /\ aTouched' = [aTouched EXCEPT ![p] = {}]
             /\ UNCHANGED <<tickets, wWrites>>
        ELSE /\ tickets' = r.tickets
             /\ aWritten' = [aWritten EXCEPT ![p] = @ \cup {ticket.id}]
             /\ aTouched' = Touch(ticket.id, p)
             /\ wWrites' = IF wPc = "polling" /\ wId = ticket.id
                           THEN Append(wWrites, ticket.assignment) ELSE wWrites
             /\ aPc' = [aPc EXCEPT ![p] = IF LastOf(p) THEN "exec" ELSE "write"]
             /\ aPos' = [aPos EXCEPT ![p] = IF LastOf(p) THEN 1 ELSE @ + 1]
             /\ UNCHANGED <<aIds, aAsg, aRead, aResult>>
  /\ UNCHANGED <<calls, allTickets, proposed_ticket_ids, now>>
  /\ UNCHANGED <<wPc, wId, currAssignment, emitted, wResult, wReads>>
  /\ UNCHANGED <<feVars, delVars, queryVars>>

\* Do("EXEC") on the connection that got the MULTI: the transaction holds no
\* command, so it changes nothing; its error is returned, else nil.
UpdateAssignmentsExec(p, f) ==
  /\ aPc[p] = "exec"
  /\ Return(p, IF f = "command" THEN "Unknown" ELSE "OK")
  /\ aTouched' = [aTouched EXCEPT ![p] = {}]
  /\ UNCHANGED <<calls, storeVars, feVars, delVars, watchVars, queryVars>>

\* ---------------------------------------------- frontend WatchAssignments
\* proto.Equal on two assignments (nil equals only nil).
ProtoEqual_nilUnequal(a, b) == a = b /\ a # "nil"

ProtoEqual(a, b) == a = b

\* The callback's test with only its first clause.
ShouldSend_firstOnly(curr, assignment) == curr = "nil" /\ assignment # "nil"

\* The callback's test without the comparison with currAssignment.
ShouldSend_nonNil(curr, assignment) == assignment # "nil"

\* The test of the callback of doWatchAssignments.
ShouldSend(curr, assignment) ==
  (curr = "nil" /\ assignment # "nil") \/ ~ProtoEqual(curr, assignment)

\* frontendService.WatchAssignments up to the first poll: ctx is live,
\* doWatchAssignments, GetAssignments takes a connection.
WatchAssignments(id, f) ==
  /\ wPc = "idle"
  /\ wId' = id
  /\ wWrites' = <<IF id \in DOMAIN tickets
                   THEN Unmarshal(tickets[id]).assignment ELSE "nil">>
  /\ IF f = "connect"
     THEN wPc' = "ended" /\ wResult' = "Unavailable"
     ELSE wPc' = "polling" /\ wResult' = "none"
  /\ UNCHANGED <<currAssignment, emitted, wReads>>
  /\ UNCHANGED <<storeVars, feVars, delVars, asgVars, queryVars>>

\* One run of backoffOperation: rb.GetTicket, then the callback, which
\* sends the assignment when ShouldSend; a GetTicket or Send error ends the
\* stream, else the operation is retried after the constant backoff.
Poll(f, sendOK) ==
  /\ wPc = "polling"
  /\ LET r == rbGetTicket(wId, f)
         a == r.ticket.assignment
     IN IF r.code # "OK"
        THEN /\ wPc' = "ended" /\ wResult' = r.code
             /\ UNCHANGED <<currAssignment, emitted, wReads>>
        ELSE /\ wReads' = IF wReads = << >> \/ Last(wReads) # a
                          THEN Append(wReads, a) ELSE wReads
             /\ IF ShouldSend(currAssignment, a)
                THEN /\ currAssignment' = a
                     /\ IF sendOK
                        THEN /\ emitted' = Append(emitted, a)
                             /\ UNCHANGED <<wPc, wResult>>
                        ELSE /\ wPc' = "ended" /\ wResult' = "Aborted"
                             /\ UNCHANGED emitted
                ELSE UNCHANGED <<currAssignment, emitted, wPc, wResult>>
  /\ UNCHANGED <<wId, wWrites>>
  /\ UNCHANGED <<storeVars, feVars, delVars, asgVars, queryVars>>

\* frontendService.WatchAssignments with the context of the stream: a
\* context that is done ends the call before doWatchAssignments.
WatchAssignmentsCtx(id, f) ==
  IF wCancelled
  THEN /\ wPc = "idle"
       /\ wPc' = "ended"
       /\ wResult' = "Canceled"
       /\ wId' = id
       /\ UNCHANGED <<currAssignment, emitted, wReads, wWrites>>
       /\ UNCHANGED <<storeVars, feVars, delVars, asgVars, queryVars>>
  ELSE WatchAssignments(id, f)

\* The caller cancels the context of the stream.
CancelWatch ==
  /\ ~wCancelled
  /\ wCancelled' = TRUE
  /\ UNCHANGED wTick
  /\ UNCHANGED <<storeVars, feVars, delVars, asgVars, watchVars, queryVars>>

\* One run of backoffOperation under the context of the stream, when the
\* timer of backoff.Retry fires (the timer is not bound to the context).
\* Of a cancelled context: stream.Send fails; redisPool.GetContext in
\* rb.connect fails if it looks at the context (seen), and hands out an
\* idle connection if it does not.
PollCtx(f, sendOK, seen) ==
  /\ wCancelled => (~sendOK /\ f = IF seen THEN "connect" ELSE "none")
  /\ Poll(f, sendOK)
  /\ wTick' = ~wTick
  /\ UNCHANGED wCancelled

\* ----------------------------------------------------- GetIndexedIDSet
\* redisBackend.GetIndexedIDSet up to and including ZRANGEBYSCORE on the
\* ignore list, with the window [now - ttl, now].
GetIndexedIDSetBegin(f) ==
  /\ qPc \in {"idle", "done"}
  /\ qDeletedAtStart' = deleteOK
  /\ qResult' = {}
  /\ IF f = "none"
     THEN /\ qTime' = now
          /\ qIgnore' = IdsInIgnoreLists(now)
          /\ qPc' = "smembers"
          /\ qCode' = "none"
     ELSE /\ qTime' = 0
          /\ qIgnore' = {}
          /\ qPc' = "done"
          /\ qCode' = IF f = "connect" THEN "Unavailable" ELSE "Internal"
  /\ UNCHANGED <<storeVars, feVars, delVars, asgVars, watchVars>>

\* The result built from every member of the index.
IndexedIDSet_noFilter(idsIndexed, idsInIgnoreLists) == idsIndexed

\* The map GetIndexedIDSet builds: every indexed id, then the ids of the
\* ignore list deleted from it.
IndexedIDSet(idsIndexed, idsInIgnoreLists) == idsIndexed \ idsInIgnoreLists

\* GetIndexedIDSet from SMEMBERS allTickets to the return: the members of
\* the index without the ids read from the ignore list.
GetIndexedIDSetMembers(f) ==
  /\ qPc = "smembers"
  /\ qPc' = "done"
  /\ qIgnore' = {}
  /\ qTime' = 0
  /\ IF f = "none"
     THEN qResult' = IndexedIDSet(allTickets, qIgnore) /\ qCode' = "OK"
     ELSE qResult' = {} /\ qCode' = "Internal"
  /\ UNCHANGED qDeletedAtStart
  /\ UNCHANGED <<storeVars, feVars, delVars, asgVars, watchVars>>

\* ---------------------------------------------------------- QueryTickets
\* A filter that leaves out its upper bound.
InFilter_exclusiveMax(ticket, filter) ==
  /\ filter.attribute \in DOMAIN Fields(ticket.properties)
  /\ filter.min <= Fields(ticket.properties)[filter.attribute]
  /\ Fields(ticket.properties)[filter.attribute] < filter.max

\* A ticket passes a filter when it has the attribute and the value lies in
\* the range, both ends included.
InFilter(ticket, filter) ==
  /\ filter.attribute \in DOMAIN Fields(ticket.properties)
  /\ filter.min <= Fields(ticket.properties)[filter.attribute]
  /\ Fields(ticket.properties)[filter.attribute] <= filter.max

\* The ids of a set in a list, as the map of GetIndexedIDSet is ranged over.
RECURSIVE ListOf(_)
ListOf(S) ==
  IF S = {} THEN << >>
  ELSE LET x == CHOOSE y \in S : TRUE IN <<x>> \o ListOf(S \ {x})

\* A match function calls QueryTickets(pool): a pool without filter is
\* rejected before the store is read.
QueryTickets(pool) ==
  /\ qtPc \in {"idle", "done"}
  /\ qtPool' = pool
  /\ qtResult' = {}
  /\ qtTime' = 0
  /\ IF pool = {}
     THEN qtPc' = "done" /\ qtCode' = "InvalidArgument"
     ELSE qtPc' = "call" /\ qtCode' = "none"
  /\ UNCHANGED <<storeVars, feVars, delVars, asgVars, watchVars, queryVars>>

\* QueryTickets snapshots the indexed id set: GetIndexedIDSet starts.
QueryTicketsIds(f) ==
  /\ qtPc = "call"
  /\ qtPc' = "ids"
  /\ qtTime' = now
  /\ GetIndexedIDSetBegin(f)
  /\ UNCHANGED <<qtPool, qtResult, qtCode>>

\* QueryTickets fetches the tickets of the snapshot with GetTickets and
\* streams those that pass every filter of the pool.
QueryTicketsFetch(f) ==
  /\ qtPc = "ids" /\ qPc = "done"
  /\ qtPc' = "done"
  /\ IF qCode # "OK"
     THEN qtCode' = qCode /\ qtResult' = {}
     ELSE LET r == rbGetTickets(ListOf(qResult), f)
          IN /\ qtCode' = r.code
             /\ qtResult' = IF r.code # "OK" THEN {}
                            ELSE {t \in Range(r.tickets) :
                                    \A filter \in qtPool : InFilter(t, filter)}
  /\ UNCHANGED <<qtPool, qtTime>>
  /\ UNCHANGED <<storeVars, feVars, delVars, asgVars, watchVars, queryVars>>

\* No QueryTickets call was made yet.
Quiet == qtPc = "idle"

\* ------------------------------------------- direct calls on the store
\* A client of statestore.Service calls IndexTicket.
IndexTicket(id, f) ==
  /\ allTickets' = rbIndexTicket(Ticket(id, "nil", "nil", "nil"), f).allTickets
  /\ UNCHANGED <<tickets, proposed_ticket_ids, now>>
  /\ UNCHANGED <<feVars, delVars, asgVars, watchVars, queryVars>>

\* A client of statestore.Service calls DeindexTicket.
DeindexTicket(id, f) ==
  /\ allTickets' = rbDeindexTicket(id, f).allTickets
  /\ UNCHANGED <<tickets, proposed_ticket_ids, now>>
  /\ UNCHANGED <<feVars, delVars, asgVars, watchVars, queryVars>>

\* A client of statestore.Service calls DeleteTicketsFromIgnoreList.
DeleteTicketsFromIgnoreList(ids, f) ==
  /\ proposed_ticket_ids' = rbDeleteTicketsFromIgnoreList(ids, f).list
  /\ UNCHANGED <<tickets, allTickets, now>>
  /\ UNCHANGED <<feVars, delVars, asgVars, watchVars, queryVars>>

\* The observer notes the call a client made on the store.
CallReply(op, ids, existed, f, code, reply) ==
  /\ sCall' = [op |-> op, ids |-> ids, existed |-> existed, fault |-> f,
               code |-> code]
  /\ sReply' = reply
  /\ UNCHANGED <<qSeen, qDirty, expired, compVars>>

\* The observer notes a call that returns no ticket.
Call(op, ids, existed, f, code) == CallReply(op, ids, existed, f, code, << >>)

\* A client of statestore.Service calls DeleteTicket.
StoreDeleteTicket(id, f) ==
  /\ tickets' = rbDeleteTicket(id, f).tickets
  /\ Call("DeleteTicket", <<id>>, id \in DOMAIN tickets, f,
          rbDeleteTicket(id, f).code)
  /\ UNCHANGED <<allTickets, proposed_ticket_ids, now>>
  /\ UNCHANGED <<feVars, delVars, asgVars, watchVars, queryVars>>

\* A client of statestore.Service calls GetTickets.
GetTickets(ids, f) ==
  /\ CallReply("GetTickets", ids, \A k \in 1..Len(ids) : ids[k] \in DOMAIN tickets,
               f, rbGetTickets(ids, f).code, rbGetTickets(ids, f).tickets)
  /\ UNCHANGED <<tickets, allTickets, proposed_ticket_ids, now>>
  /\ UNCHANGED <<feVars, delVars, asgVars, watchVars, queryVars>>

\* With redis.expiration > 0 CreateTicket sets EXPIRE on the key of the
\* ticket: Redis evicts the record when the time is up.  The key is the only
\* thing EXPIRE was set on.
ExpireTicket(id) ==
  /\ id \in DOMAIN tickets
  /\ tickets' = Drop(tickets, {id})
  /\ expired' = expired \cup {id}
  /\ sCall' = NoCall
  /\ sReply' = << >>
  /\ UNCHANGED <<qSeen, qDirty, compVars>>
  /\ UNCHANGED <<allTickets, proposed_ticket_ids, now>>
  /\ UNCHANGED <<feVars, delVars, asgVars, watchVars, queryVars>>

\* The ids a query started now would see: indexed and not in the window of
\* the ignore list.
Visible == allTickets \ IdsInIgnoreLists(now)

\* What an observer of the store notes at every step while a
\* GetIndexedIDSet call is in progress, from the state in which the call
\* reads the ignore list to the state in which it reads the index.
Observe ==
  /\ qSeen' = IF qPc = "smembers" THEN qSeen \cup Visible'
              ELSE IF qPc' = "smembers" THEN Visible'
              ELSE qSeen
  /\ qDirty' = IF qPc = "smembers"
               THEN qDirty \/ <<allTickets, proposed_ticket_ids>>'
                                # <<allTickets, proposed_ticket_ids>>
               ELSE IF qPc' = "smembers" THEN FALSE
               ELSE qDirty
  /\ UNCHANGED <<sCall, sReply, expired, compVars>>

\* ------------------------------------------------------- specifications
\* Tickets are created on a healthy store.  Backend b1 assigns a1 (or nil)
\* to any id list, on a store that may fail and with a context that may be
\* cancelled; meanwhile backend b2 assigns a2 to single tickets.
NextAssign ==
  \/ CreateTicket("ok", "none") /\ UNCHANGED obsVars
  \/ CreateTicketIndex("none") /\ UNCHANGED obsVars
  \/ \E ids \in IdLists(ClientIDs), a \in {"a1", "nil"} :
       AssignTickets("b1", ids, a) /\ UNCHANGED calls /\ UNCHANGED obsVars
  \/ \E id \in ClientIDs : AssignTickets("b2", <<id>>, "a2") /\ UNCHANGED calls /\ UNCHANGED obsVars
  \/ \E f \in {"none", "connect"} : UpdateAssignmentsBegin("b1", f) /\ UNCHANGED obsVars
  \/ \E f \in {"none", "command"}, cancel \in BOOLEAN : UpdateAssignmentsCheck("b1", f, cancel) /\ UNCHANGED obsVars
  \/ \E f \in {"none", "command"}, cancel \in BOOLEAN : UpdateAssignmentsWrite("b1", f, cancel) /\ UNCHANGED obsVars
  \/ \E f \in {"none", "command"} : UpdateAssignmentsExec("b1", f) /\ UNCHANGED obsVars
  \/ UpdateAssignmentsBegin("b2", "none") /\ UNCHANGED obsVars
  \/ UpdateAssignmentsCheck("b2", "none", FALSE) /\ UNCHANGED obsVars
  \/ UpdateAssignmentsWrite("b2", "none", FALSE) /\ UNCHANGED obsVars
  \/ UpdateAssignmentsExec("b2", "none") /\ UNCHANGED obsVars

SpecAssign == Init /\ [][NextAssign]_vars

\* A client watches a ticket while backend b1 makes at most MaxCalls
\* AssignTickets calls on a healthy store; polls and sends may fail.
NextWatch ==
  \/ CreateTicket("ok", "none") /\ UNCHANGED obsVars
  \/ CreateTicketIndex("none") /\ UNCHANGED obsVars
  \/ \E ids \in IdLists(ClientIDs), a \in Assignments :
       /\ calls < MaxCalls
       /\ calls' = calls + 1
       /\ AssignTickets("b1", ids, a)
       /\ UNCHANGED obsVars
  \/ UpdateAssignmentsBegin("b1", "none") /\ UNCHANGED obsVars
  \/ UpdateAssignmentsCheck("b1", "none", FALSE) /\ UNCHANGED obsVars
  \/ UpdateAssignmentsWrite("b1", "none", FALSE) /\ UNCHANGED obsVars
  \/ UpdateAssignmentsExec("b1", "none") /\ UNCHANGED obsVars
  \/ \E id \in ClientIDs, f \in {"none", "connect"} : WatchAssignments(id, f) /\ UNCHANGED obsVars
  \/ \E f \in {"none", "command"}, sendOK \in BOOLEAN : Poll(f, sendOK) /\ UNCHANGED obsVars

SpecWatch == Init /\ [][NextWatch]_vars

\* Clients create and delete tickets over a store whose connections may
\* fail, while backend b1 assigns single tickets on healthy connections.
NextDelete ==
  \/ CreateTicket("ok", "none") /\ UNCHANGED obsVars
  \/ CreateTicketIndex("none") /\ UNCHANGED obsVars
  \/ \E id \in returned, f \in SendFaults : DeleteTicket(id, f) /\ UNCHANGED obsVars
  \/ \E id \in IDs, f \in DoFaults : LazyDelete(id, f) /\ UNCHANGED obsVars
  \/ \E id \in IDs, f \in DoFaults : LazyIgnore(id, f) /\ UNCHANGED obsVars
  \/ \E id \in returned : AssignTickets("b1", <<id>>, "a1") /\ UNCHANGED calls /\ UNCHANGED obsVars
  \/ UpdateAssignmentsBegin("b1", "none") /\ UNCHANGED obsVars
  \/ UpdateAssignmentsCheck("b1", "none", FALSE) /\ UNCHANGED obsVars
  \/ UpdateAssignmentsWrite("b1", "none", FALSE) /\ UNCHANGED obsVars
  \/ UpdateAssignmentsExec("b1", "none") /\ UNCHANGED obsVars

SpecDelete == Init /\ [][NextDelete]_vars

\* Clients create and delete tickets over a store whose connections may
\* fail, the synchronizer puts tickets on the ignore list, time passes, and
\* queries read the indexed id set.
NextQuery ==
  \/ CreateTicket("ok", "none") /\ UNCHANGED obsVars
  \/ CreateTicketIndex("none") /\ UNCHANGED obsVars
  \/ \E id \in returned, f \in {"none", "flush"} : DeleteTicket(id, f) /\ UNCHANGED obsVars
  \/ \E id \in IDs, f \in {"none", "command"} : LazyDelete(id, f) /\ UNCHANGED obsVars
  \/ \E id \in IDs, f \in {"none", "command"} : LazyIgnore(id, f) /\ UNCHANGED obsVars
  \/ \E id \in returned : AddTicketsToIgnoreList(<<id>>, "none") /\ UNCHANGED obsVars
  \/ Tick /\ UNCHANGED obsVars
  \/ \E f \in {"none", "command"} : GetIndexedIDSetBegin(f) /\ UNCHANGED obsVars
  \/ \E f \in {"none", "command"} : GetIndexedIDSetMembers(f) /\ UNCHANGED obsVars

SpecQuery == Init /\ [][NextQuery]_vars

\* Clients send valid and invalid CreateTicket requests to a frontend whose
\* store connections may fail, while backend b1 assigns single tickets.
NextCreate ==
  \/ \E req \in Requests, f \in DoFaults : CreateTicket(req, f) /\ UNCHANGED obsVars
  \/ \E f \in SendFaults : CreateTicketIndex(f) /\ UNCHANGED obsVars
  \/ \E id \in returned : AssignTickets("b1", <<id>>, "a1") /\ UNCHANGED calls /\ UNCHANGED obsVars
  \/ UpdateAssignmentsBegin("b1", "none") /\ UNCHANGED obsVars
  \/ UpdateAssignmentsCheck("b1", "none", FALSE) /\ UNCHANGED obsVars
  \/ UpdateAssignmentsWrite("b1", "none", FALSE) /\ UNCHANGED obsVars
  \/ UpdateAssignmentsExec("b1", "none") /\ UNCHANGED obsVars

SpecCreate == Init /\ [][NextCreate]_vars

\* Tickets are created; clients of the store index and deindex ids and put
\* them on and take them off the ignore list, time passes, and a query reads
\* the indexed id set; an observer follows the store during the query.
NextIndex ==
  \/ CreateTicket("ok", "none") /\ Observe
  \/ CreateTicketIndex("none") /\ Observe
  \/ \E id \in IDs : IndexTicket(id, "none") /\ Observe
  \/ \E id \in IDs : DeindexTicket(id, "none") /\ Observe
  \/ \E ids \in IdLists(IDs) : AddTicketsToIgnoreList(ids, "none") /\ Observe
  \/ \E ids \in IdLists(IDs) : DeleteTicketsFromIgnoreList(ids, "none") /\ Observe
  \/ Tick /\ Observe
  \/ \E f \in DoFaults : GetIndexedIDSetBegin(f) /\ Observe
  \/ \E f \in {"none", "command"} : GetIndexedIDSetMembers(f) /\ Observe

SpecIndex == Init /\ [][NextIndex]_vars

\* Tickets are created with an expiration; clients call DeleteTicket,
\* DeindexTicket and the ignore-list operations on the store; Redis evicts
\* records; time passes.
NextStore ==
  \/ CreateTicket("ok", "none") /\ Call("CreateTicket", << >>, FALSE, "none", "OK")
  \/ CreateTicketIndex("none") /\ Call("IndexTicket", << >>, FALSE, "none", "OK")
  \/ \E id \in AllIDs, f \in DoFaults : StoreDeleteTicket(id, f)
  \/ \E id \in IDs :
       DeindexTicket(id, "none") /\ Call("DeindexTicket", <<id>>, FALSE, "none", "OK")
  \/ \E ids \in IdLists(IDs), f \in DoFaults :
       /\ AddTicketsToIgnoreList(ids, f)
       /\ Call("AddTicketsToIgnoreList", ids, FALSE, f,
               rbAddTicketsToIgnoreList(ids, f).code)
  \/ \E ids \in IdLists(IDs), f \in DoFaults :
       /\ DeleteTicketsFromIgnoreList(ids, f)
       /\ Call("DeleteTicketsFromIgnoreList", ids, FALSE, f,
               rbDeleteTicketsFromIgnoreList(ids, f).code)
  \/ \E id \in IDs : ExpireTicket(id)
  \/ Tick /\ Call("none", << >>, FALSE, "none", "none")

SpecStore == Init /\ [][NextStore]_vars

\* Every step that can be taken is taken in the end: Redis and the clients
\* keep running.
SpecStoreFair == SpecStore /\ WF_vars(NextStore)

\* ------------------------------------------------------------ HealthCheck
\* rb.connect of some operation: redisPool.GetContext with Wait: true hands
\* out a connection when fewer than MaxActive are out, and waits otherwise.
PoolGet ==
  /\ poolActive < MaxActive
  /\ poolActive' = poolActive + 1
  /\ UNCHANGED <<reachable, hcPc, hcResult, hcIdle, hcStarved>>

\* handleConnectionClose of that operation gives the connection back.
PoolPut ==
  /\ poolActive > 0
  /\ poolActive' = poolActive - 1
  /\ UNCHANGED <<reachable, hcPc, hcResult, hcIdle, hcStarved>>

\* Redis goes down or comes back.
RedisFlip ==
  /\ reachable' = ~reachable
  /\ UNCHANGED <<poolActive, hcPc, hcResult, hcIdle, hcStarved>>

\* A HealthCheck that takes its connection from redisPool.
HealthCheckPoolFree_main == poolActive < MaxActive

\* healthCheckPool has MaxActive: 0, no limit: GetContext never waits for a
\* connection to come back.
HealthCheckPoolFree == TRUE

\* A caller (the health endpoint) calls HealthCheck.
HealthCheck ==
  /\ hcPc = "idle"
  /\ hcPc' = "get"
  /\ hcResult' = "none"
  /\ hcStarved' = (poolActive = MaxActive)
  /\ UNCHANGED <<poolActive, reachable, hcIdle>>

\* healthCheckPool.GetContext: an idle connection of the pool, or a new one
\* dialled; the dial fails when Redis does not answer.
HealthCheckGet ==
  /\ hcPc = "get"
  /\ HealthCheckPoolFree
  /\ IF hcIdle \/ reachable
     THEN hcPc' = "stats" /\ hcResult' = hcResult
     ELSE hcPc' = "idle" /\ hcResult' = "Unavailable"
  /\ hcIdle' = FALSE
  /\ hcStarved' = (hcStarved /\ poolActive = MaxActive)
  /\ UNCHANGED <<poolActive, reachable>>

\* rb.redisPool.Stats(): the counters of the main pool, read under its
\* mutex; no connection is taken.
HealthCheckStats ==
  /\ hcPc = "stats"
  /\ hcPc' = "ping"
  /\ hcStarved' = (hcStarved /\ poolActive = MaxActive)
  /\ UNCHANGED <<poolActive, reachable, hcResult, hcIdle>>

\* redisConn.Do("PING") and the deferred close: a connection that failed is
\* not kept.
HealthCheckPing ==
  /\ hcPc = "ping"
  /\ hcPc' = "idle"
  /\ hcResult' = IF reachable THEN "OK" ELSE "Unavailable"
  /\ hcIdle' = reachable
  /\ hcStarved' = (hcStarved /\ poolActive = MaxActive)
  /\ UNCHANGED <<poolActive, reachable>>

\* A step of a HealthCheck under way.
HealthCheckStep ==
  (HealthCheckGet \/ HealthCheckStats \/ HealthCheckPing) /\ UNCHANGED hcRest

\* Tickets are created, and clients of the store index and deindex ids,
\* those of the tickets and others, on connections that can fail.
NextMember ==
  \/ CreateTicket("ok", "none") /\ Call("CreateTicket", << >>, FALSE, "none", "OK")
  \/ CreateTicketIndex("none") /\ Call("CreateTicketIndex", << >>, FALSE, "none", "OK")
  \/ \E id \in AllIDs, f \in SendFaults :
       /\ IndexTicket(id, f)
       /\ Call("IndexTicket", <<id>>, id \in allTickets, f,
               rbIndexTicket(Ticket(id, "nil", "nil", "nil"), f).code)
  \/ \E id \in AllIDs, f \in SendFaults :
       /\ DeindexTicket(id, f)
       /\ Call("DeindexTicket", <<id>>, id \in allTickets, f,
               rbDeindexTicket(id, f).code)

SpecMember == Init /\ [][NextMember]_vars

\* Tickets are created and some are assigned; records are deleted by
\* clients and evicted by Redis; clients read lists of ids with GetTickets.
NextRead ==
  \/ \E req \in {"ok", "withId"} :
       CreateTicket(req, "none") /\ Call("CreateTicket", << >>, FALSE, "none", "OK")
  \/ CreateTicketIndex("none") /\ Call("CreateTicketIndex", << >>, FALSE, "none", "OK")
  \/ \E id \in IDs : StoreDeleteTicket(id, "none")
  \/ \E id \in IDs : ExpireTicket(id)
  \/ \E ids \in IdSeqs(AllIDs), f \in DoFaults : GetTickets(ids, f)

SpecRead == Init /\ [][NextRead]_vars

\* Operations take and give back connections of the main pool, Redis goes
\* down and comes back, and the health endpoint calls HealthCheck.
NextHealth ==
  \/ PoolGet /\ UNCHANGED hcRest
  \/ PoolPut /\ UNCHANGED hcRest
  \/ RedisFlip /\ UNCHANGED hcRest
  \/ HealthCheck /\ UNCHANGED hcRest
  \/ HealthCheckGet /\ UNCHANGED hcRest
  \/ HealthCheckStats /\ UNCHANGED hcRest
  \/ HealthCheckPing /\ UNCHANGED hcRest

SpecHealth == Init /\ [][NextHealth]_vars

\* A HealthCheck under way goes on whenever its next step can be taken; the
\* operations that hold the connections of the main pool need not end.
SpecHealthFair == SpecHealth /\ WF_vars(HealthCheckStep)

\* A ticket is created and assigned; a caller opens a WatchAssignments
\* stream and cancels its context, before or after opening it.
NextCancel ==
  \/ CreateTicket("ok", "none") /\ UNCHANGED obsVars
  \/ CreateTicketIndex("none") /\ UNCHANGED obsVars
  \/ \E id \in ClientIDs, a \in Assignments :
       /\ calls < MaxCalls
       /\ calls' = calls + 1
       /\ AssignTickets("b1", <<id>>, a)
       /\ UNCHANGED obsVars
  \/ UpdateAssignmentsBegin("b1", "none") /\ UNCHANGED obsVars
  \/ UpdateAssignmentsCheck("b1", "none", FALSE) /\ UNCHANGED obsVars
  \/ UpdateAssignmentsWrite("b1", "none", FALSE) /\ UNCHANGED obsVars
  \/ UpdateAssignmentsExec("b1", "none") /\ UNCHANGED obsVars
  \/ \E id \in ClientIDs, f \in {"none", "connect"} :
       WatchAssignmentsCtx(id, f) /\ UNCHANGED wcVars /\ UNCHANGED wcRest
  \/ CancelWatch /\ UNCHANGED wcRest
  \/ \E f \in DoFaults, sendOK \in BOOLEAN, seen \in BOOLEAN :
       PollCtx(f, sendOK, seen) /\ UNCHANGED wcRest

SpecCancel == Init /\ [][NextCancel]_vars

\* The timer of backoff.Retry keeps firing: a poll that can run does run.
SpecCancelFair ==
  SpecCancel /\ WF_vars(\E f \in DoFaults, sendOK \in BOOLEAN, seen \in BOOLEAN :
                          PollCtx(f, sendOK, seen) /\ UNCHANGED wcRest)

\* Tickets with different properties are created; ids are put on the ignore
\* list, records are evicted, time passes; then a match
\* function calls QueryTickets on the store as it is, again and again.
NextQueryTickets ==
  \/ \E req \in {"ok", "withId"} : Quiet /\ CreateTicket(req, "none") /\ UNCHANGED obsVars
  \/ Quiet /\ CreateTicketIndex("none") /\ UNCHANGED obsVars
  \/ \E id \in IDs : Quiet /\ AddTicketsToIgnoreList(<<id>>, "none") /\ UNCHANGED obsVars
  \/ \E id \in IDs :
       Quiet /\ ExpireTicket(id)
  \/ Quiet /\ Tick /\ UNCHANGED obsVars
  \/ \E pool \in Pools : QueryTickets(pool) /\ UNCHANGED qtRest
  \/ \E f \in DoFaults : QueryTicketsIds(f) /\ UNCHANGED qtRest
  \/ \E f \in {"none", "command"} :
       /\ qtPc = "ids"
       /\ GetIndexedIDSetMembers(f)
       /\ UNCHANGED qtVars /\ UNCHANGED qtRest
  \/ \E f \in DoFaults : QueryTicketsFetch(f) /\ UNCHANGED qtRest

SpecQueryTickets == Init /\ [][NextQueryTickets]_vars

\* ------------------------------------------------------- evaluator client
\* The synchronizer's client of the evaluator: a deferred evaluator that keeps
\* one transport in a cacher, and the two transports, gRPC and chunked HTTP.

\* The matches proposals are made of, by the ticket ids they hold: two of
\* them share a ticket with a third.
Matches == {[tickets |-> s] : s \in {{1, 2}, {2, BogusID}, {BogusID}}}

\* The proposal lists of one window.
Proposals == UNION {[1..n -> Matches] : n \in 0..MaxProposals}

\* No two matches of the list hold the same ticket.
NonConflicting(ms) ==
  \A i, j \in 1..Len(ms) : i # j => ms[i].tickets \cap ms[j].tickets = {}

\* The matches of the list at the kept positions, in order.
RECURSIVE Pick(_, _)
Pick(ms, keep) ==
  IF ms = << >> THEN << >>
  ELSE (IF 1 \in keep THEN <<Head(ms)>> ELSE << >>)
       \o Pick(Tail(ms), {i - 1 : i \in keep \ {1}})

\* What the evaluator may select from the proposals: a non-conflicting
\* sub-list.  The evaluator is a separate server.
Evaluations(proposals) ==
  {a \in {Pick(proposals, keep) : keep \in SUBSET (1..Len(proposals))} :
     NonConflicting(a)}

\* The frames of a response: one result frame per selected match and, when the
\* evaluator or the connection fails, one frame that is not a result: an error
\* status or error field, bytes that do not decode, or a result that is not
\* an EvaluateResponse.
BadFrames == {"error", "garbage", "badResult"}
ResultFrames(accepted) ==
  [i \in 1..Len(accepted) |-> [kind |-> "result", match |-> accepted[i]]]
Responses(accepted) ==
  {ResultFrames(accepted)} \cup
  {SubSeq(ResultFrames(accepted), 1, i)
     \o <<[kind |-> k, match |-> [tickets |-> {}]]>>
     \o SubSeq(ResultFrames(accepted), i + 1, Len(accepted)) :
     i \in 0..Len(accepted), k \in BadFrames}

\* The status code of an error made by fmt.Errorf("...: %w", err): the code
\* of the wrapped status where status.Code unwraps, Unknown where it does not.
WrappedCode(inner, unwraps) == IF unwraps THEN inner ELSE "Unknown"

\* What goes wrong on a call: nothing; the evaluator cannot be reached; the
\* request cannot be made; a proposal cannot be marshalled or sent; the send
\* side cannot be closed.
EvaluateFaults == {"none", "unreachable", "request", "marshal", "send", "close"}

\* The receive loop of the gRPC transport: results are appended in the order
\* received, up to the end of the stream; any other error ends the call.
RECURSIVE grpcRecv(_, _, _)
grpcRecv(frames, results, unwraps) ==
  IF frames = << >> THEN [code |-> "OK", matches |-> results]
  ELSE IF Head(frames).kind # "result"
    THEN [code |-> WrappedCode("Internal", unwraps), matches |-> << >>]
  ELSE grpcRecv(Tail(frames), Append(results, Head(frames).match), unwraps)

\* grcpEvaluatorClient.evaluate.
grpcEvaluate(proposals, frames, fault, unwraps) ==
  IF fault = "unreachable"
    THEN [code |-> WrappedCode("Unavailable", unwraps), matches |-> << >>]
  ELSE IF fault = "send" /\ proposals # << >>
    THEN [code |-> WrappedCode("Unknown", unwraps), matches |-> << >>]
  ELSE IF fault = "close"
    THEN [code |-> WrappedCode("Internal", unwraps), matches |-> << >>]
  ELSE grpcRecv(frames, << >>, unwraps)

\* The writer goroutine of the HTTP transport: what it leaves in sc.
httpSend(proposals, fault) ==
  IF proposals # << >> /\ fault \in {"marshal", "send"}
    THEN "FailedPrecondition" ELSE "none"

\* The reader goroutine of the HTTP transport: what it leaves in rc, and the
\* results it has appended by then.
RECURSIVE httpRecv(_, _)
httpRecv(frames, results) ==
  IF frames = << >> THEN [rc |-> "none", results |-> results]
  ELSE IF Head(frames).kind # "result"
    THEN [rc |-> "Unavailable", results |-> results]
  ELSE httpRecv(Tail(frames), Append(results, Head(frames).match))

\* The variant that hands back the results read before the failure.
httpEvaluate_partial(proposals, frames, fault) ==
  IF fault \in {"request", "unreachable"}
    THEN [code |-> "Aborted", matches |-> << >>]
  ELSE LET sc == httpSend(proposals, fault)
           r == httpRecv(frames, << >>)
       IN  IF sc # "none" THEN [code |-> sc, matches |-> r.results]
           ELSE IF r.rc # "none" THEN [code |-> r.rc, matches |-> r.results]
           ELSE [code |-> "OK", matches |-> r.results]

\* httpEvaluatorClient.evaluate: the request, then both goroutines, then sc
\* is looked at before rc.
httpEvaluate(proposals, frames, fault) ==
  IF fault \in {"request", "unreachable"}
    THEN [code |-> "Aborted", matches |-> << >>]
  ELSE LET sc == httpSend(proposals, fault)
           r == httpRecv(frames, << >>)
       IN  IF sc # "none" THEN [code |-> sc, matches |-> << >>]
           ELSE IF r.rc # "none" THEN [code |-> r.rc, matches |-> << >>]
           ELSE [code |-> "OK", matches |-> r.results]

\* newInstance of newEvaluator: gRPC is preferred over HTTP.
newInstance(cfg, build) ==
  IF cfg \in {"grpc", "both"}
    THEN [transport |-> "grpc", code |-> IF build THEN "OK" ELSE "Unknown"]
  ELSE IF cfg = "http"
    THEN [transport |-> "http", code |-> IF build THEN "OK" ELSE "Unknown"]
  ELSE [transport |-> "none", code |-> "FailedPrecondition"]

\* Cacher.Get: the transport the cacher holds, or a new one made by
\* newInstance; one that could not be made is not kept.
cacherGet(cache, built, cfg, build) ==
  IF cache # 0
    THEN [inst |-> cache, transport |-> newInstance(cfg, TRUE).transport,
          code |-> "OK"]
  ELSE LET made == newInstance(cfg, build)
       IN  IF made.code = "OK"
             THEN [inst |-> built + 1, transport |-> made.transport,
                   code |-> "OK"]
           ELSE [inst |-> 0, transport |-> "none", code |-> made.code]

\* Cacher.ForceReset: the cacher holds nothing.
cacherForceReset(cache) == 0

\* What the cacher holds after an evaluate call: the variant that keeps the
\* transport whatever the call returned.
AfterEvaluate_keep(inst, code) == inst

\* What the cacher holds after an evaluate call on the transport inst:
\* ForceReset after an error.
AfterEvaluate(inst, code) ==
  IF code # "OK" THEN cacherForceReset(inst) ELSE inst

\* The matches the transport hands to the caller: the variant that hands back
\* the proposals.
Returned_proposals(proposals, r) ==
  [code |-> r.code, matches |-> IF r.code = "OK" THEN proposals ELSE << >>]

\* The matches the deferred evaluator hands to the caller: those of the
\* transport.
Returned(proposals, r) == r

\* The configuration sets an evaluator port.  Read when a transport is built.
Configure(cfg) ==
  /\ evCache = 0
  /\ evCall = NoEvaluate
  /\ evCfg # cfg
  /\ evCfg' = cfg
  /\ UNCHANGED <<evCache, evBuilt, evCall>>

\* deferredEvaluator.evaluate: the transport of the cacher, or a new one; the
\* call on it; the cacher is reset when the call failed.
Evaluate(proposals, frames, fault, build, unwraps) ==
  LET e == cacherGet(evCache, evBuilt, evCfg, build)
      fails == e.code # "OK"
      r == IF fails THEN [code |-> e.code, matches |-> << >>]
           ELSE IF e.transport = "grpc"
             THEN grpcEvaluate(proposals, frames, fault, unwraps)
           ELSE httpEvaluate(proposals, frames, fault)
      out == Returned(proposals, r)
  IN  /\ evCall = NoEvaluate
      /\ evCache # 0 \/ evBuilt < MaxCalls
      /\ evBuilt' = IF e.inst > evBuilt THEN e.inst ELSE evBuilt
      /\ evCache' = IF fails THEN evCache ELSE AfterEvaluate(e.inst, r.code)
      /\ evCall' = [transport |-> e.transport,
                    inst |-> e.inst,
                    cached |-> evCache # 0,
                    proposals |-> proposals,
                    frames |-> frames,
                    script |-> IF fails THEN "build" ELSE fault,
                    producer |-> IF fails \/ e.transport # "http" THEN "none"
                                 ELSE httpSend(proposals, fault),
                    code |-> out.code,
                    matches |-> out.matches]
      /\ UNCHANGED evCfg

\* The caller has taken what evaluate returned.
EvaluateReturn ==
  /\ evCall # NoEvaluate
  /\ evCall' = NoEvaluate
  /\ UNCHANGED <<evCfg, evCache, evBuilt>>

NextEvaluator ==
  \/ \E cfg \in {"neither", "grpc", "http", "both"} :
       Configure(cfg) /\ UNCHANGED evRest
  \/ EvaluateReturn /\ UNCHANGED evRest
  \/ \E id \in IDs : AddTicketsToIgnoreList(<<id>>, "none") /\ UNCHANGED obsVars
  \/ evCall = NoEvaluate /\ \E proposals \in Proposals :
       \E accepted \in Evaluations(proposals) :
         \E frames \in Responses(accepted), fault \in EvaluateFaults,
            build \in (IF evCache # 0 THEN {TRUE} ELSE BOOLEAN),
            unwraps \in (IF newInstance(evCfg, TRUE).transport = "grpc"
                           THEN BOOLEAN ELSE {FALSE}) :
           Evaluate(proposals, frames, fault, build, unwraps)
           /\ UNCHANGED evRest

SpecEvaluator == Init /\ [][NextEvaluator]_vars

\* All tickets are created; then backends b1 and b2 each call AssignTickets
\* over all of them, b1 with a1 and b2 with a2, on a healthy store.
NextAssignBoth ==
  \/ CreateTicket("ok", "none") /\ UNCHANGED obsVars
  \/ CreateTicketIndex("none") /\ UNCHANGED obsVars
  \/ \E p \in Assigners, ids \in IdLists(returned) :
       /\ Range(ids) = IDs
       /\ calls < MaxCalls
       /\ calls' = calls + 1
       /\ AssignTickets(p, ids, IF p = "b1" THEN "a1" ELSE "a2")
       /\ UNCHANGED obsVars
  \/ \E p \in Assigners : UpdateAssignmentsBegin(p, "none") /\ UNCHANGED obsVars
  \/ \E p \in Assigners : UpdateAssignmentsCheck(p, "none", FALSE) /\ UNCHANGED obsVars
  \/ \E p \in Assigners : UpdateAssignmentsWrite(p, "none", FALSE) /\ UNCHANGED obsVars
  \/ \E p \in Assigners : UpdateAssignmentsExec(p, "none") /\ UNCHANGED obsVars

SpecAssignBoth == Init /\ [][NextAssignBoth]_vars

\* Tickets are created; the synchronizer puts lists of ids on the ignore
\* list on connections that can fail, time passes, and queries read the
\* indexed id set at any moment in between.
NextIgnore ==
  \/ CreateTicket("ok", "none") /\ UNCHANGED obsVars
  \/ CreateTicketIndex("none") /\ UNCHANGED obsVars
  \/ \E ids \in IdLists(IDs), f \in DoFaults :
       /\ AddTicketsToIgnoreList(ids, f)
       /\ Call("AddTicketsToIgnoreList", ids, FALSE, f,
               rbAddTicketsToIgnoreList(ids, f).code)
  \/ Tick /\ UNCHANGED obsVars
  \/ \E f \in DoFaults : GetIndexedIDSetBegin(f) /\ UNCHANGED obsVars
  \/ \E f \in {"none", "command"} : GetIndexedIDSetMembers(f) /\ UNCHANGED obsVars

SpecIgnore == Init /\ [][NextIgnore]_vars

\* A client watches a ticket, or an id that never existed, on a healthy
\* store while backend b1 assigns tickets, clients delete records and Redis
\* evicts them; a send on the stream may fail.
NextGone ==
  \/ CreateTicket("ok", "none") /\ UNCHANGED obsVars
  \/ CreateTicketIndex("none") /\ UNCHANGED obsVars
  \/ \E id \in returned :
       /\ calls < MaxCalls
       /\ calls' = calls + 1
       /\ AssignTickets("b1", <<id>>, "a1")
       /\ UNCHANGED obsVars
  \/ UpdateAssignmentsBegin("b1", "none") /\ UNCHANGED obsVars
  \/ UpdateAssignmentsCheck("b1", "none", FALSE) /\ UNCHANGED obsVars
  \/ UpdateAssignmentsWrite("b1", "none", FALSE) /\ UNCHANGED obsVars
  \/ UpdateAssignmentsExec("b1", "none") /\ UNCHANGED obsVars
  \/ \E id \in ClientIDs : WatchAssignments(id, "none") /\ UNCHANGED obsVars
  \/ \E sendOK \in BOOLEAN : Poll("none", sendOK) /\ UNCHANGED obsVars
  \/ \E id \in IDs : StoreDeleteTicket(id, "none")
  \/ \E id \in IDs : ExpireTicket(id)

SpecGone == Init /\ [][NextGone]_vars

\* ------------------------------------------------------ redis.expiration
\* With redis.expiration > 0 every rb.CreateTicket sends EXPIRE id ttl after
\* its SET, in the same transaction: the key is evicted ttl after that write.
SetExpire(id) == Put(kExpire, id, now + Expiration)

\* Frontend CreateTicket with an expiration.
CreateTicketExpiring ==
  /\ CreateTicket("ok", "none")
  /\ kExpire' = SetExpire(nextId)
  /\ kCreated' = Put(kCreated, nextId, now)
  /\ UNCHANGED <<expired, exRest>>

\* The write loop of UpdateAssignments with an expiration: its
\* rb.CreateTicket sets the expiry of the key again.
UpdateAssignmentsWriteExpiring(p) ==
  /\ UpdateAssignmentsWrite(p, "none", FALSE)
  /\ kExpire' = SetExpire(aRead[p][aPos[p]].id)
  /\ UNCHANGED <<kCreated, expired, exRest>>

\* time.Now() advances, and Redis evicts the keys whose time is up.
TickExpire ==
  LET due == {id \in DOMAIN tickets : kExpire[id] <= now + 1}
  IN  /\ now < MaxTime
      /\ now' = now + 1
      /\ tickets' = Drop(tickets, due)
      /\ kExpire' = Drop(kExpire, due)
      /\ expired' = expired \cup due
      /\ UNCHANGED <<allTickets, proposed_ticket_ids, kCreated, exRest>>
      /\ UNCHANGED <<feVars, delVars, asgVars, watchVars, queryVars>>

\* Tickets are created with an expiration, backend b1 assigns them, time
\* passes and Redis evicts what is due.
NextExpiry ==
  \/ CreateTicketExpiring
  \/ CreateTicketIndex("none") /\ UNCHANGED obsVars
  \/ \E ids \in IdLists(returned) :
       /\ calls < MaxCalls
       /\ calls' = calls + 1
       /\ AssignTickets("b1", ids, "a1")
       /\ UNCHANGED obsVars
  \/ UpdateAssignmentsBegin("b1", "none") /\ UNCHANGED obsVars
  \/ UpdateAssignmentsCheck("b1", "none", FALSE) /\ UNCHANGED obsVars
  \/ UpdateAssignmentsWriteExpiring("b1")
  \/ UpdateAssignmentsExec("b1", "none") /\ UNCHANGED obsVars
  \/ TickExpire

SpecExpiry == Init /\ [][NextExpiry]_vars

\* ------------------------------------------- the connections of redisPool
\* UpdateAssignments and GetAssignments take a connection with rb.connect and
\* keep it until they return; the rb.GetTicket and rb.CreateTicket calls they
\* make in between take one of their own.  The store is healthy and no
\* context is cancelled: redisPool.GetContext (Wait: true) waits until a
\* connection is given back.

\* A caller calls UpdateAssignments over n ids (n reads, then n writes) or
\* GetAssignments (polls until the ticket is gone or the stream fails).
PoolCall(c, op, n) ==
  /\ plAt[c] = "idle"
  /\ plOp' = [plOp EXCEPT ![c] = op]
  /\ plAt' = [plAt EXCEPT ![c] = "connect"]
  /\ plLeft' = [plLeft EXCEPT ![c] = IF op = "UpdateAssignments" THEN 2 * n ELSE 1]
  /\ UNCHANGED hcVars

\* rb.connect at the top of the operation.
PoolConnect(c) ==
  /\ plAt[c] = "connect"
  /\ PoolGet
  /\ plAt' = [plAt EXCEPT ![c] = "held"]
  /\ UNCHANGED <<plOp, plLeft>>

\* rb.connect inside rb.GetTicket or rb.CreateTicket, called by an operation
\* that holds its own connection.
PoolConnectNested(c) ==
  /\ plAt[c] = "held" /\ plLeft[c] > 0
  /\ PoolGet
  /\ plAt' = [plAt EXCEPT ![c] = "nested"]
  /\ UNCHANGED <<plOp, plLeft>>

\* rb.GetTicket or rb.CreateTicket returns and its deferred
\* handleConnectionClose gives its connection back; a poll of GetAssignments
\* is the last one when the ticket is gone or the callback failed.
PoolCloseNested(c, last) ==
  /\ plAt[c] = "nested"
  /\ PoolPut
  /\ plAt' = [plAt EXCEPT ![c] = "held"]
  /\ plLeft' = [plLeft EXCEPT ![c] =
                  IF plOp[c] = "UpdateAssignments" THEN @ - 1
                  ELSE IF last THEN 0 ELSE 1]
  /\ UNCHANGED plOp

\* The operation returns and its deferred handleConnectionClose gives its
\* connection back.
PoolReturn(c) ==
  /\ plAt[c] = "held" /\ plLeft[c] = 0
  /\ PoolPut
  /\ plAt' = [plAt EXCEPT ![c] = "idle"]
  /\ plOp' = [plOp EXCEPT ![c] = "none"]
  /\ UNCHANGED plLeft

\* As many callers as the pool has connections call UpdateAssignments and
\* GetAssignments concurrently.
NextPool ==
  \/ \E c \in Callers, n \in 1..MaxIds :
       PoolCall(c, "UpdateAssignments", n) /\ UNCHANGED plRest
  \/ \E c \in Callers : PoolCall(c, "GetAssignments", 1) /\ UNCHANGED plRest
  \/ \E c \in Callers : PoolConnect(c) /\ UNCHANGED plRest
  \/ \E c \in Callers : PoolConnectNested(c) /\ UNCHANGED plRest
  \/ \E c \in Callers, last \in BOOLEAN : PoolCloseNested(c, last) /\ UNCHANGED plRest
  \/ \E c \in Callers : PoolReturn(c) /\ UNCHANGED plRest

SpecPool == Init /\ [][NextPool]_vars

\* ------------------------------- the goroutines of the HTTP evaluate call
\* httpEvaluatorClient.evaluate step by step: the call, the goroutine that
\* writes the proposals into the request pipe, and the goroutine that reads
\* the response.

\* evaluate is called with n proposals: the pipe and sc are made and the
\* writer goroutine starts.
HttpEvaluate(n) ==
  /\ hMain \in {"idle", "returned"}
  /\ hProd \in {"none", "done"} /\ hCons \in {"none", "done"}
  /\ hMain' = "request"
  /\ hProd' = "run"
  /\ hCons' = "none"
  /\ hPipe' = "unread"
  /\ hLeft' = n
  /\ hClosed' = FALSE

\* The writer's sc <- err: a send on the buffered channel, which panics once
\* the channel is closed.
HttpSendError == IF hClosed THEN "panic" ELSE "done"

\* The writer goroutine: all proposals written, it ends; else it marshals
\* the next one and writes it into the pipe.  The write waits for the pipe
\* to be read, and fails once the pipe is closed.
HttpWriter(marshalOK) ==
  /\ hProd = "run"
  /\ IF hLeft = 0 THEN hProd' = "done" /\ hLeft' = 0
     ELSE IF ~marshalOK THEN hProd' = HttpSendError /\ hLeft' = hLeft
     ELSE /\ hPipe # "unread"
          /\ IF hPipe = "closed"
             THEN hProd' = HttpSendError /\ hLeft' = hLeft
             ELSE hProd' = "run" /\ hLeft' = hLeft - 1
  /\ UNCHANGED <<hMain, hCons, hPipe, hClosed>>

\* http.NewRequest: on an error evaluate returns, and the deferred close(sc)
\* runs.
HttpNewRequest(ok) ==
  /\ hMain = "request"
  /\ hMain' = IF ok THEN "do" ELSE "returned"
  /\ hClosed' = ~ok
  /\ UNCHANGED <<hProd, hCons, hPipe, hLeft>>

\* httpClient.Do has started: the transport reads the request body.
HttpDoRead ==
  /\ hMain = "do" /\ hPipe = "unread"
  /\ hPipe' = "reading"
  /\ UNCHANGED <<hMain, hProd, hCons, hLeft, hClosed>>

\* The transport closes the request body: the evaluator cannot be reached,
\* or it has answered and closed.
HttpBodyClose ==
  /\ hMain \in {"do", "wait"} /\ hPipe # "closed"
  /\ hPipe' = "closed"
  /\ UNCHANGED <<hMain, hProd, hCons, hLeft, hClosed>>

\* httpClient.Do returns: with an error, after the transport closed the body,
\* evaluate returns and the deferred close(sc) runs; with a response, the
\* reader goroutine starts and evaluate waits for both goroutines.
HttpDo(ok) ==
  /\ hMain = "do"
  /\ ok \/ hPipe = "closed"
  /\ hMain' = IF ok THEN "wait" ELSE "returned"
  /\ hCons' = IF ok THEN "run" ELSE hCons
  /\ hClosed' = ~ok
  /\ UNCHANGED <<hProd, hPipe, hLeft>>

\* The reader goroutine reads the response to its end or to a bad frame.
HttpReader ==
  /\ hCons = "run"
  /\ hCons' = "done"
  /\ UNCHANGED <<hMain, hProd, hPipe, hLeft, hClosed>>

\* wg.Wait() is over: evaluate looks at sc and rc and returns, and the
\* deferred closes run.
HttpWait ==
  /\ hMain = "wait"
  /\ hProd = "done" /\ hCons = "done"
  /\ hMain' = "returned"
  /\ hClosed' = TRUE
  /\ UNCHANGED <<hProd, hCons, hPipe, hLeft>>

NextHttp ==
  \/ \E n \in 0..MaxProposals : HttpEvaluate(n) /\ UNCHANGED htRest
  \/ \E marshalOK \in BOOLEAN : HttpWriter(marshalOK) /\ UNCHANGED htRest
  \/ \E ok \in BOOLEAN : HttpNewRequest(ok) /\ UNCHANGED htRest
  \/ HttpDoRead /\ UNCHANGED htRest
  \/ HttpBodyClose /\ UNCHANGED htRest
  \/ \E ok \in BOOLEAN : HttpDo(ok) /\ UNCHANGED htRest
  \/ HttpReader /\ UNCHANGED htRest
  \/ HttpWait /\ UNCHANGED htRest

SpecHttp == Init /\ [][NextHttp]_vars

\* ---------------------------------------------------------------- claims
\* What a reader (GetTicket, GetTickets, a WatchAssignments poll) sees of id:
\* one GET or MGET reads the store as it is in one state.
SeenAssignment(id) ==
  IF rbGetTicket(id, "none").code = "OK"
  THEN rbGetTicket(id, "none").ticket.assignment ELSE "none"

\* The call of p returns in this step.
Returns(p) == aPc[p] # "idle" /\ aPc'[p] = "idle"

\* C1: no reader ever observes a state in which one id of an AssignTickets
\* call already carries the call's assignment, written by the call, while
\* another id of the same call does not.
C1_AssignmentAtomicAcrossIds ==
  \A p \in Assigners : \A i \in Range(aIds[p]), j \in Range(aIds[p]) :
    ~(/\ i \in aWritten[p] /\ SeenAssignment(i) = aAsg[p]
      /\ j \notin aWritten[p] /\ SeenAssignment(j) # aAsg[p])

\* C2: in the step in which AssignTickets(ids, a) returns OK, every id of ids
\* that no other caller wrote since the call began has a record whose
\* assignment is a.
C2_AssignedAfterOK ==
  [][\A p \in Assigners :
       (Returns(p) /\ aResult'[p] = "OK") =>
         \A id \in Range(aIds[p]) \ aTouched[p] :
           id \in DOMAIN tickets' /\ Unmarshal(tickets'[id]).assignment = aAsg[p]]_vars

\* C2 witness: a call over two tickets has written both, untouched by others,
\* and is about to return.
C2_Witness ==
  /\ aPc["b1"] = "exec" /\ Len(aIds["b1"]) = 2 /\ aTouched["b1"] = {}
  /\ \A id \in Range(aIds["b1"]) : SeenAssignment(id) = "a1"

\* C3: a sanity-check read of an id with no record ends the call with no
\* ticket written (NotFound unless the read itself failed or the context was
\* cancelled), and a call that returns NotFound has written no ticket:
\* the records of the ids before the missing one are as they were.
C3_NotFoundWritesNothing ==
  [][\A p \in Assigners :
       /\ (Returns(p) /\ aResult'[p] = "NotFound") =>
            aWritten[p] = {} /\ tickets' = tickets
       /\ (/\ aPc[p] = "check"
           /\ aIds[p][aPos[p]] \notin DOMAIN tickets
           /\ (aPc'[p] # aPc[p] \/ aRead'[p] # aRead[p])) =>
            /\ Returns(p)
            /\ aResult'[p] \in {"NotFound", "Canceled", "Internal", "Unavailable"}
            /\ aWritten[p] = {}
            /\ tickets' = tickets]_vars

\* C3 witness: the sanity check has passed an existing, unassigned ticket and
\* now reads an id with no record.
C3_Witness ==
  /\ aPc["b1"] = "check" /\ aPos["b1"] = 2
  /\ aIds["b1"][2] \notin DOMAIN tickets
  /\ SeenAssignment(aIds["b1"][1]) = "nil"
  /\ aResult["b2"] = "NotFound"

Changes(h) ==
  Cardinality({i \in 1..Len(h) : h[i] # (IF i = 1 THEN "nil" ELSE h[i - 1])})

\* C5: a WatchAssignments stream never emits two consecutive identical
\* assignments, and it emits at most once per change of the ticket's
\* assignment: a write of the value the ticket already carries adds no
\* emission, a write of a different value at most one.
C5_NoConsecutiveDuplicates ==
  /\ \A i \in 1..(Len(emitted) - 1) : emitted[i] # emitted[i + 1]
  /\ Len(emitted) <= Changes(wWrites)

\* C5 witness: a1 was applied twice, then a2; the stream emitted a1 and a2.
C5_Witness ==
  /\ wWrites = <<"nil", "a1", "a1", "a2">>
  /\ emitted = <<"a1", "a2">>

\* No backend can write again, and the open stream has caught up with the
\* ticket: no later poll emits anything.
WatchQuiescent ==
  /\ calls = MaxCalls
  /\ \A p \in Assigners : aPc[p] = "idle"
  /\ wPc = "polling"
  /\ SeenAssignment(wId) = currAssignment

\* C6 as claimed: once the writes are over and the open stream has caught
\* up, every assignment written to the ticket during the watch was emitted.
C6_EveryWrittenValueDelivered ==
  WatchQuiescent => Range(Tail(wWrites)) \subseteq Range(emitted)

\* C6 amended: while the stream is open, every assignment a poll has read
\* was emitted.
C6_EveryObservedValueDelivered ==
  wPc = "polling" => (Range(wReads) \ {"nil"}) \subseteq Range(emitted)

\* C6 witness: a1 was written during the watch and overwritten by a2 before
\* a poll read it; the open stream emitted only a2.
C6_Witness ==
  /\ wPc = "polling"
  /\ "a1" \in Range(Tail(wWrites))
  /\ wReads = <<"nil", "a2">>
  /\ emitted = <<"a2">>

\* The first non-nil assignment a poll read ("nil" when there is none).
FirstNonNil(s) ==
  IF \E i \in 1..Len(s) : s[i] # "nil"
  THEN s[CHOOSE i \in 1..Len(s) : s[i] # "nil" /\ \A j \in 1..(i - 1) : s[j] = "nil"]
  ELSE "nil"

\* C7: a stream on an existing ticket emits nothing while the ticket's
\* assignment is unset, and its first emission is the first non-nil
\* assignment a poll reads.
C7_FirstEmission ==
  /\ (wId \in DOMAIN tickets /\ Unmarshal(tickets[wId]).assignment = "nil")
       => emitted = << >>
  /\ FirstNonNil(wReads) = "nil" => emitted = << >>
  /\ emitted # << >> => emitted[1] = FirstNonNil(wReads)
  /\ (wPc = "polling" /\ FirstNonNil(wReads) # "nil") => emitted # << >>

\* C7 witness: the first poll read the unset assignment and emitted nothing;
\* a later poll read a1 and emitted it.
C7_Witness ==
  /\ wPc = "polling"
  /\ wWrites = <<"nil", "a1">>
  /\ wReads = <<"nil", "a1">>
  /\ emitted = <<"a1">>

\* C8: a GetIndexedIDSet that starts after DeleteTicket(id) returned OK and
\* returns OK does not return id, whatever the state of the lazy goroutine.
C8_DeletedNeverQueried ==
  (qPc = "done" /\ qCode = "OK") => qResult \cap qDeletedAtStart = {}

\* C9: once DeleteTicket(X) has returned OK and the record of X is gone,
\* GetTicket(X) keeps returning NotFound: the record never comes back.
C9_DeletedStaysNotFound ==
  [][\A id \in deleteOK :
       id \notin DOMAIN tickets => id \notin DOMAIN tickets']_vars

\* A step of the lazy goroutine of some DeleteTicket.
LazyStep == \E id \in AllIDs : lazy[id] # "none" /\ lazy'[id] # lazy[id]

\* C10: DeleteTicket returns the code DeindexTicket returned, OK exactly
\* when it was OK; a step of the lazy goroutine, failed or not, changes
\* neither what DeleteTicket returned nor the index.
C10_OnlyDeindexErrorReturned ==
  /\ [](dCode = dDeindexCode)
  /\ [][LazyStep => /\ dCode' = dCode
                    /\ deleteOK' = deleteOK
                    /\ allTickets' = allTickets]_vars

\* C10 witness: DeleteTicket(id) returned OK, the lazy record delete failed
\* and left the record, the goroutine has ended and id is not in the index.
C10_Witness ==
  /\ dCode = "OK"
  /\ \E id \in deleteOK \cap lazyFailed :
       /\ lazy[id] = "none"
       /\ id \in DOMAIN tickets
       /\ id \notin allTickets

\* A request CreateTicket must reject: no ticket, a ticket with an
\* assignment, or a ticket with a create time.
InvalidRequest(req) ==
  \/ ~CreateTicketRequest(req).hasTicket
  \/ CreateTicketRequest(req).ticket.assignment # "nil"
  \/ CreateTicketRequest(req).ticket.create_time # "nil"

\* A step in which a CreateTicket call is made or goes on.
CreateStep == <<feReq, feResult, feReqTicket, fePc>>' # <<feReq, feResult, feReqTicket, fePc>>

C12_CreateThenGet ==
  [][(fePc = "index" /\ feResult' = "OK") =>
       LET t == CreateTicketRequest(feReq).ticket
       IN /\ (rbGetTicket(feTicket.id, "none"))' = [code |-> "OK", ticket |-> feTicket]
          /\ feTicket.properties = t.properties
          /\ feTicket.assignment = t.assignment
          /\ feTicket.id \in IDs /\ feTicket.id # t.id
          /\ feTicket.create_time = "ts"
          /\ feReqTicket' = t]_vars

\* C12 witness: a request whose ticket carried an id of the client's was
\* answered with a ticket under a generated id, and the record is stored.
C12_Witness ==
  /\ fePc = "idle" /\ feReq = "withId" /\ feResult = "OK"
  /\ feReqTicket = Ticket(BogusID, "p2", "nil", "nil")
  /\ feTicket.id \in DOMAIN tickets
  /\ feTicket.properties = "p2"

\* C13: CreateTicket writes the record before it indexes the id; when it
\* returns OK the record is stored and the id is in the index; when
\* indexing fails it returns an error, the record is stored and the id is
\* not in the index.
C13_PersistThenIndex ==
  /\ [](fePc = "index" =>
          feTicket.id \in DOMAIN tickets /\ feTicket.id \notin allTickets)
  /\ [][fePc = "index" =>
          /\ feTicket.id \in DOMAIN tickets'
          /\ feResult' = "OK" <=> feTicket.id \in allTickets']_vars

\* The ids whose ignore-list entry was, at time t, at most ttl old.
HiddenAt(t, ttl) ==
  {i \in DOMAIN proposed_ticket_ids :
     proposed_ticket_ids[i] <= t /\ t - proposed_ticket_ids[i] <= ttl}

\* The step in which a GetIndexedIDSet call that met no concurrent writer
\* returns OK.
QuietQueryReturns ==
  qPc = "smembers" /\ qPc' = "done" /\ qCode' = "OK" /\ ~qDirty

\* C14: with no concurrent writer GetIndexedIDSet returns the index without
\* the ids put on the ignore list within the ignoreListTTL before the call,
\* and no step of the call changes a ticket, the index or the ignore list.
C14_IndexMinusIgnoreList ==
  /\ [][QuietQueryReturns =>
          qResult' = allTickets \ HiddenAt(qTime, IgnoreListTTL)]_vars
  /\ [][qPc' # qPc =>
          UNCHANGED <<tickets, allTickets, proposed_ticket_ids>>]_vars

\* C14 witness: an undisturbed call returned an indexed id and left out an
\* indexed id that is on the ignore list; another entry of the list is
\* older than the ttl.
C14_Witness ==
  /\ qPc = "done" /\ qCode = "OK" /\ ~qDirty
  /\ qResult # {} /\ qResult # allTickets
  /\ allTickets \ qResult \subseteq HiddenAt(now, IgnoreListTTL)
  /\ qResult \cap DOMAIN proposed_ticket_ids # {}

\* C15: every id GetIndexedIDSet returns was, at one instant between the
\* call's read of the ignore list and its read of the index, in the index
\* and not hidden by the ignore list.
C15_ReturnedWasVisible ==
  (qPc = "done" /\ qCode = "OK") => qResult \subseteq qSeen

C17_IgnoreListFrame ==
  [][sCall'.op \in {"AddTicketsToIgnoreList", "DeleteTicketsFromIgnoreList"} =>
       /\ DOMAIN tickets' = DOMAIN tickets
       /\ \A id \in DOMAIN tickets :
            Unmarshal(tickets'[id]) = Unmarshal(tickets[id])
       /\ allTickets' = allTickets]_vars

\* C17 witness: AddTicketsToIgnoreList succeeded for an id that has a
\* record and is indexed.
C17_Witness ==
  /\ sCall.op = "AddTicketsToIgnoreList" /\ sCall.code = "OK"
  /\ \E id \in Range(sCall.ids) :
       id \in DOMAIN tickets /\ id \in allTickets /\ id \in DOMAIN proposed_ticket_ids

\* C18: an id whose record Redis evicted leaves the index in the end.
C18_ExpiredLeavesIndex ==
  \A id \in IDs : (id \in expired) ~> (id \notin allTickets)

\* C19: when UpdateAssignments returns OK for ids, every one of the ids is
\* on the ignore list.
C19_AssignedOnIgnoreList ==
  [][\A p \in Assigners :
       (Returns(p) /\ aResult'[p] = "OK") =>
         Range(aIds[p]) \subseteq DOMAIN proposed_ticket_ids']_vars

\* C20: a store DeleteTicket(id) that meets no fault returns OK whether or
\* not id has a record, leaves no record of id and every other record as it
\* was, leaves the index and the ignore list as they were, and a second
\* DeleteTicket(id) would return OK and change nothing.
C20_DeleteTicketIdempotent ==
  [][\A id \in AllIDs :
       (sCall'.op = "DeleteTicket" /\ sCall'.ids = <<id>> /\ sCall'.fault = "none") =>
         /\ sCall'.code = "OK"
         /\ DOMAIN tickets' = DOMAIN tickets \ {id}
         /\ \A i \in DOMAIN tickets' : tickets'[i] = tickets[i]
         /\ (rbDeleteTicket(id, "none"))' = [code |-> "OK", tickets |-> tickets']
         /\ allTickets' = allTickets
         /\ proposed_ticket_ids' = proposed_ticket_ids]_vars

\* C20 witness: DeleteTicket returned OK for an id without a record while
\* other records, the index and the ignore list were not empty.
C20_Witness ==
  /\ sCall.op = "DeleteTicket" /\ ~sCall.existed /\ sCall.code = "OK"
  /\ sCall.ids[1] \in expired \cup allTickets
  /\ DOMAIN tickets # {} /\ allTickets # {} /\ DOMAIN proposed_ticket_ids # {}

\* C21: IndexTicket(id) that meets no fault returns OK and leaves id in the
\* index, DeindexTicket(id) that meets no fault returns OK and leaves id out
\* of it; neither changes the membership of another id, so indexing an
\* indexed id and deindexing an id that is not indexed change nothing, and a
\* second call of either would return OK and change nothing.  Neither
\* changes a ticket record.
C21_IndexDeindexIdempotent ==
  [][\A id \in AllIDs :
       /\ (sCall'.op = "IndexTicket" /\ sCall'.ids = <<id>> /\ sCall'.fault = "none") =>
            /\ sCall'.code = "OK"
            /\ allTickets' = allTickets \cup {id}
            /\ (rbIndexTicket(Ticket(id, "nil", "nil", "nil"), "none"))' =
                 [code |-> "OK", allTickets |-> allTickets']
            /\ tickets' = tickets
       /\ (sCall'.op = "DeindexTicket" /\ sCall'.ids = <<id>> /\ sCall'.fault = "none") =>
            /\ sCall'.code = "OK"
            /\ allTickets' = allTickets \ {id}
            /\ (rbDeindexTicket(id, "none"))' =
                 [code |-> "OK", allTickets |-> allTickets']
            /\ tickets' = tickets
       /\ (\/ sCall'.op = "IndexTicket" /\ sCall'.ids = <<id>> /\ id \in allTickets
           \/ sCall'.op = "DeindexTicket" /\ sCall'.ids = <<id>> /\ id \notin allTickets) =>
            allTickets' = allTickets /\ tickets' = tickets]_vars

\* C21 witness: DeindexTicket returned OK for an id that was not indexed
\* while the record of a created ticket is stored and another id is indexed.
C21_Witness ==
  /\ sCall.op = "DeindexTicket" /\ ~sCall.existed /\ sCall.code = "OK"
  /\ sCall.fault = "none"
  /\ sCall.ids[1] \in DOMAIN tickets
  /\ allTickets # {}

\* The positions of ids whose id has a record.
WithRecord(ids) == {k \in 1..Len(ids) : ids[k] \in DOMAIN tickets}

\* C22: a GetTickets(ids) that meets no fault returns OK and one ticket for
\* every position of ids whose id has a record at the read, each the record
\* of its id, and nothing else; an empty id list returns OK and nothing,
\* whatever the connection; the call changes nothing in the store.
C22_GetTicketsDropsMissing ==
  [][sCall'.op = "GetTickets" =>
       /\ sCall'.fault = "none" =>
            /\ sCall'.code = "OK"
            /\ Len(sReply') = Cardinality(WithRecord(sCall'.ids))
            /\ Range(sReply') =
                 {Unmarshal(tickets[sCall'.ids[k]]) : k \in WithRecord(sCall'.ids)}
            /\ \A k \in 1..Len(sReply') :
                 /\ sReply'[k].id \in DOMAIN tickets
                 /\ sReply'[k] = rbGetTicket(sReply'[k].id, "none").ticket
       /\ sCall'.ids = << >> => sCall'.code = "OK" /\ sReply' = << >>
       /\ UNCHANGED <<tickets, allTickets, proposed_ticket_ids>>]_vars

\* C22 witness: GetTickets was asked for an id with a record, an id whose
\* record is gone and returned OK with the one ticket.
C22_Witness ==
  /\ sCall.op = "GetTickets" /\ sCall.code = "OK" /\ ~sCall.existed
  /\ Len(sCall.ids) = 2 /\ Len(sReply) = 1
  /\ Range(sCall.ids) \cap expired # {}
  /\ sReply[1].id \in Range(sCall.ids) \cap DOMAIN tickets

\* C23: a HealthCheck under way returns, whatever the operations that hold
\* the connections of the main pool do; no step of it takes or waits for a
\* connection of the main pool; it returns OK when Redis answered its PING
\* and Unavailable when Redis did not answer.
C23_HealthCheckIndependentOfMainPool ==
  /\ (hcPc # "idle") ~> (hcPc = "idle")
  /\ [][hcPc' # hcPc => poolActive' = poolActive]_vars
  /\ [][(hcPc # "idle" /\ hcPc' = "idle") =>
          /\ hcResult' \in {"OK", "Unavailable"}
          /\ hcResult' = "OK" <=> reachable]_vars

\* C23 witness: a HealthCheck returned OK, and at each of its steps every
\* connection of the main pool was out.
C23_Witness ==
  /\ hcPc = "idle" /\ hcResult = "OK" /\ hcStarved
  /\ poolActive = MaxActive

\* C24: a stream whose context is cancelled ends.
C24_CancelledStreamEnds ==
  (wCancelled /\ wPc = "polling") ~> (wPc = "ended")

\* The tickets QueryTickets(pool) has to return from the store as it is, read
\* at time t: those of the indexed ids that the ignore list does not hide
\* at t and whose value of every filter's attribute lies within the
\* filter's bounds, the bounds included.
Matching(pool, t) ==
  {rbGetTicket(id, "none").ticket :
     id \in {i \in (allTickets \ HiddenAt(t, IgnoreListTTL)) \cap DOMAIN tickets :
               \A filter \in pool :
                 LET fields == Fields(Unmarshal(tickets[i]).properties)
                 IN /\ filter.attribute \in DOMAIN fields
                    /\ fields[filter.attribute] >= filter.min
                    /\ fields[filter.attribute] <= filter.max}}

\* C25: a QueryTickets call that returns OK returns exactly the matching
\* tickets, and a call with a pool without filter returns InvalidArgument
\* and no ticket.
C25_QueryTicketsExact ==
  /\ [][(qtPc = "ids" /\ qtPc' = "done" /\ qtCode' = "OK") =>
          qtResult' = Matching(qtPool, qtTime)]_vars
  /\ [](qtPc = "done" /\ qtPool = {} => qtCode = "InvalidArgument" /\ qtResult = {})
  /\ [](qtCode = "InvalidArgument" => qtPool = {})

\* C25 witness: of two indexed tickets QueryTickets returned the one whose
\* value is the upper bound of the filter and not the one outside the range.
C25_Witness ==
  /\ qtPc = "done" /\ qtCode = "OK"
  /\ Cardinality(allTickets \cap DOMAIN tickets) = 2
  /\ DOMAIN proposed_ticket_ids = {}
  /\ Cardinality(qtResult) = 1
  /\ \E filter \in qtPool, t \in qtResult :
       Fields(t.properties)[filter.attribute] = filter.max

\* The last evaluate call got a response: the request was made and answered.
Answered(transport) ==
  /\ evCall.transport = transport
  /\ evCall.script \in {"none", "marshal", "send", "close"}

\* The response of the last evaluate call has a frame of this kind.
HasFrame(kind) == \E i \in 1..Len(evCall.frames) : evCall.frames[i].kind = kind

\* C26: on the chunked HTTP transport, whenever a response frame carries a
\* non-empty error field, the evaluate call fails with Unavailable and returns
\* no match, those of the frames read before the error frame included.
C26_ErrorFrameUnavailable ==
  (Answered("http") /\ HasFrame("error"))
    => (evCall.code = "Unavailable" /\ evCall.matches = << >>)

\* The last evaluate call could not reach the evaluator, or got a response
\* that does not decode.
Unreachable == evCall.transport \in {"grpc", "http"} /\ evCall.script = "unreachable"
Undecodable ==
  /\ Answered("grpc") \/ Answered("http")
  /\ HasFrame("garbage") \/ HasFrame("badResult")

\* C27: when the evaluator is unreachable or its response cannot be decoded,
\* the evaluate call fails with Unavailable, on the gRPC transport and on the
\* HTTP transport.
C27_UnreachableUnavailable ==
  (Unreachable \/ Undecodable) => evCall.code = "Unavailable"

\* C28: the deferred evaluator uses the transport the cacher holds, and keeps
\* it, across consecutive successful calls; after a call that returned an
\* error the cacher holds nothing, and the next call builds a new transport.
C28_TransportReusedUntilError ==
  [][(evCall = NoEvaluate /\ evCall' # NoEvaluate) =>
       /\ evCache # 0 => evCall'.inst = evCache
       /\ evCall'.code = "OK" => evCache' = evCall'.inst
       /\ evCall'.code # "OK" => evCache' = 0
       /\ (evCache = 0 /\ evCall'.inst # 0) => evCall'.inst > evBuilt]_vars

\* A second transport, built after the first was discarded, is used again by
\* the call after the one that built it.
C28_Witness ==
  evCall.cached /\ evCall.inst = 2 /\ evCall.code = "OK" /\ evCache = 2

C30_FailureAcceptsNothing ==
  /\ [](evCall.code \notin {"none", "OK"} => evCall.matches = << >>)
  /\ [][(evCall = NoEvaluate /\ evCall' # NoEvaluate)
         => proposed_ticket_ids' = proposed_ticket_ids]_vars

\* A call failed after a result frame had been read, with tickets on the
\* ignore list.
C30_Witness ==
  /\ evCall.code \notin {"none", "OK"}
  /\ Len(evCall.frames) > 1
  /\ evCall.frames[1].kind = "result"
  /\ evCall.script = "none"
  /\ DOMAIN proposed_ticket_ids # {}

\* C31: when UpdateAssignments fails or sees the cancellation in its write
\* loop after it has rewritten some tickets, it writes no further ticket and
\* returns an error; the tickets it has rewritten keep its assignment and the
\* others keep the assignment the call read, unless another caller wrote them.
C31_PartialProgressKept ==
  [][\A p \in Assigners :
       (aPc[p] = "write" /\ aWritten[p] # {} /\ Returns(p)) =>
         /\ aResult'[p] \in {"Canceled", "Internal", "Unavailable"}
         /\ tickets' = tickets
         /\ \A i \in 1..Len(aIds[p]) :
              aIds[p][i] \notin aTouched[p] =>
                SeenAssignment(aIds[p][i]) =
                  IF aIds[p][i] \in aWritten[p] THEN aAsg[p]
                  ELSE aRead[p][i].assignment]_vars

\* A call over two tickets failed or was cancelled between its two writes:
\* the first carries the call's assignment, the second none.
C31_Witness ==
  /\ aPc["b1"] = "idle" /\ aResult["b1"] \in {"Canceled", "Internal"}
  /\ aPc["b2"] = "idle" /\ aResult["b2"] = "none"
  /\ \E i, j \in DOMAIN tickets :
       SeenAssignment(i) = "a1" /\ SeenAssignment(j) = "nil"

\* The call of caller c can take its next step: it needs no connection, or
\* the pool has one to hand out.
CanProceed(c) ==
  \/ plAt[c] = "nested"
  \/ plAt[c] = "held" /\ plLeft[c] = 0
  \/ plAt[c] \in {"connect", "held"} /\ poolActive < MaxActive

\* C32: with redisPool bounded to MaxActive connections and Wait = true,
\* concurrent UpdateAssignments and GetAssignments calls never block one
\* another for ever: while calls are open, one of them can take its next step.
C32_CallsNeverBlockForever ==
  (\E c \in Callers : plAt[c] # "idle") => \E c \in Callers : CanProceed(c)

\* C33: once the goroutine started by DeleteTicket(id) has removed the record
\* of id, id has no record again: no operation, and no UpdateAssignments call
\* that read the ticket before the delete, writes it back.
C33_DeletedRecordNeverReappears ==
  \A id \in deleteOK \ lazyFailed :
    lazy[id] # "delete" => id \notin DOMAIN tickets

\* C34: after two concurrent UpdateAssignments calls over the same existing
\* ids, one with a1 and one with a2, have both returned OK, all the ids carry
\* the same assignment.
C34_ConcurrentAssignUniform ==
  (\A p \in Assigners : aPc[p] = "idle" /\ aResult[p] = "OK") =>
    \A i, j \in IDs : SeenAssignment(i) = SeenAssignment(j)

\* C35: httpEvaluatorClient.evaluate never returns while one of its
\* goroutines can still act on its channels: on every return path the writer
\* and the reader have ended before the deferred close of the error channels
\* runs, so no goroutine sends on a closed channel or stays blocked.
C35_GoroutinesEndBeforeReturn ==
  /\ hProd # "panic"
  /\ hMain = "returned" =>
       /\ hProd = "run" => hLeft = 0
       /\ hCons \in {"none", "done"}

\* The last call on the store was an AddTicketsToIgnoreList that returned OK.
Added == sCall.op = "AddTicketsToIgnoreList" /\ sCall.code = "OK"

\* C36: AddTicketsToIgnoreList(ids) is atomic across its ids: the call puts
\* all its ids on the ignore list with one common timestamp in one step, or
\* none, and a GetIndexedIDSet that reads the ignore list after it finds all
\* the ids of the call on it or none of them.
C36_IgnoreListAddAtomic ==
  /\ [][(sCall' # sCall /\ sCall'.op = "AddTicketsToIgnoreList") =>
         IF sCall'.code = "OK"
         THEN \A id \in Range(sCall'.ids) :
                id \in DOMAIN proposed_ticket_ids' /\ proposed_ticket_ids'[id] = now
         ELSE proposed_ticket_ids' = proposed_ticket_ids]_vars
  /\ [][(Added /\ qPc # "smembers" /\ qPc' = "smembers") =>
         \/ Range(sCall.ids) \subseteq qIgnore'
         \/ Range(sCall.ids) \cap qIgnore' = {}]_vars

\* A query has read the ignore list after a call over two ids and found both.
C36_Witness ==
  /\ Added /\ Len(sCall.ids) = 2
  /\ qPc = "smembers" /\ Range(sCall.ids) \subseteq qIgnore
  /\ Range(sCall.ids) \subseteq allTickets

\* C37: under any sequence of frontend CreateTicket, DeleteTicket and
\* AssignTickets calls, with no expiration of tickets, every id of the index
\* has a ticket record.
C37_IndexedHasRecord == allTickets \subseteq DOMAIN tickets

\* C38: a WatchAssignments(id) stream whose poll finds no record of id ends
\* with NotFound and emits nothing at that poll: at its first poll for an id
\* that never existed, and at the next poll after the ticket was deleted or
\* expired during the watch.
C38_MissingRecordEndsNotFound ==
  [][(wPc = "polling" /\ wId \notin DOMAIN tickets
      /\ <<wPc, wResult, wReads, currAssignment, emitted>>'
           # <<wPc, wResult, wReads, currAssignment, emitted>>) =>
       /\ wPc' = "ended"
       /\ wResult' = "NotFound"
       /\ emitted' = emitted]_vars

\* A stream that had emitted an assignment ended with NotFound after the
\* record of its ticket was evicted.
C38_Witness ==
  /\ wPc = "ended" /\ wResult = "NotFound"
  /\ Len(emitted) > 0
  /\ wId \in expired

\* C39: with redis.expiration = E > 0 the expiry of a ticket is fixed at its
\* creation: a ticket created at T has no record from T + E on, whether or
\* not UpdateAssignments rewrote it, and no record exists without an expiry.
C39_ExpiryFixedAtCreation ==
  \A id \in DOMAIN tickets :
    id \in DOMAIN kExpire /\ now < kCreated[id] + Expiration

====
